---- MODULE Spec2Model ----
(***************************************************************************)
(* Model of vkw: negotiation of version, layers and extensions for the    *)
(* Instance and the Device, resolution of the versioned core symbol       *)
(* tables, and the capability accessors (Extension<id>, Layer<id>).       *)
(***************************************************************************)
EXTENDS Integers, Sequences, FiniteSets, TLC

(***************************************************************************)
(* Bounds of the model.                                                    *)
(***************************************************************************)
\* longest list of requestExtension / requestLayer calls on a create-info
MaxRequested == 2
\* minor version of the last core table the generated SymbolTable.inc
\* defines (InstanceCore<1, LastCoreMinor>, DeviceCore<1, LastCoreMinor>)
LastCoreMinor == 2

(***************************************************************************)
(* ApiVersion (Library.hpp)                                                *)
(***************************************************************************)
ApiVersion(maj, min, rev) == [major |-> maj, minor |-> min, revision |-> rev]

\* defaulted operator<=> : member-wise, in declaration order
ApiVersionLess(a, b) ==
    \/ a.major < b.major
    \/ a.major = b.major /\ a.minor < b.minor
    \/ a.major = b.major /\ a.minor = b.minor /\ a.revision < b.revision

ApiVersionGreater(a, b) == ApiVersionLess(b, a)

\* operator uint32_t : VK_MAKE_API_VERSION(0, major, minor, revision),
\* 7 bits of major, 10 of minor, 12 of patch, in a 32 bit word.  The fields
\* are masked to their width, so the shifted fields do not overlap, the
\* bitwise or is a sum and the word (variant 0) stays below 2^29.
ApiVersionEncode(v) ==
    ((v.major % 128) * 4194304) + ((v.minor % 1024) * 4096)
        + (v.revision % 4096)

\* ApiVersion(uint32_t encoded) : VK_API_VERSION_MAJOR / MINOR / PATCH
ApiVersionDecode(encoded) ==
    ApiVersion((encoded \div 4194304) % 128,
               (encoded \div 4096) % 1024,
               encoded % 4096)

\* std::numeric_limits<unsigned>::max() as far as TLC's integers reach; every
\* revision of the model is far below it (and below 2^32 - 1)
UnsignedMax == 2147483647

(***************************************************************************)
(* Name tables of extensions and layers (Library.hpp); the ids are the     *)
(* dense enum values, the index into the table.                            *)
(***************************************************************************)
ExtensionNames ==
    << "VK_KHR_get_physical_device_properties2",
       "VK_EXT_memory_budget",
       "VK_EXT_debug_utils" >>

LayerNames == << "VK_LAYER_KHRONOS_validation", "VK_LAYER_LUNARG_api_dump" >>

ExtIds == 0 .. (Len(ExtensionNames) - 1)
LayerIds == 0 .. (Len(LayerNames) - 1)

KHR_get_physical_device_properties2 == 0
EXT_memory_budget == 1
EXT_debug_utils == 2

ExtensionName(id) == ExtensionNames[id + 1]
LayerName(id) == LayerNames[id + 1]

(***************************************************************************)
(* Errors.  One record shape for all of them:                              *)
(*   ApiVersionUnsupported : supported(), unsupported()                    *)
(*   SymbolsMissing        : supported = loaded, unsupported = requested   *)
(*   Extension / Layer errors : id(), name                                 *)
(*   VulkanError           : name = the VkResult                           *)
(***************************************************************************)
NoVersion == ApiVersion(0, 0, 0)

Err(kind, id, name, sup, unsup) ==
    [kind |-> kind, id |-> id, name |-> name,
     supported |-> sup, unsupported |-> unsup]

NoError == Err("none", -1, "", NoVersion, NoVersion)

ApiVersionUnsupported(lastSupported, unsupported) ==
    Err("ApiVersionUnsupported", -1, "", lastSupported, unsupported)

SymbolsMissing(loaded, requested) ==
    Err("SymbolsMissing", -1, "", loaded, requested)

ExtensionUnsupported(id, name) ==
    Err("ExtensionUnsupported", id, name, NoVersion, NoVersion)

ExtensionMissing(id, name) ==
    Err("ExtensionMissing", id, name, NoVersion, NoVersion)

LayerUnsupported(id, name) ==
    Err("LayerUnsupported", id, name, NoVersion, NoVersion)

LayerMissing(id, name) ==
    Err("LayerMissing", id, name, NoVersion, NoVersion)

VulkanError(res) == Err("VulkanError", -1, res, NoVersion, NoVersion)

\* raised by Library::ExtensionId / Library::LayerId, what() is the name
ExtensionNameError(name) ==
    Err("ExtensionNameError", -1, name, NoVersion, NoVersion)
LayerNameError(name) == Err("LayerNameError", -1, name, NoVersion, NoVersion)

(***************************************************************************)
(* Name <-> id translation (Library.hpp).  A table is searched from its    *)
(* first entry; positions are 1-based here, end is Len(table) + 1.         *)
(***************************************************************************)
RECURSIVE FindIf(_, _, _)
\* std::find_if(begin, end, !name.compare(entry)) started at position i
FindIf(table, name, i) ==
    IF i > Len(table) THEN Len(table) + 1
    ELSE IF table[i] = name THEN i
    ELSE FindIf(table, name, i + 1)

ValidExtensionName(name) ==
    FindIf(ExtensionNames, name, 1) # Len(ExtensionNames) + 1

\* mutant: a name that is not found yields the id of the last entry
ExtensionId_FailOpen(name) ==
    LET found == FindIf(ExtensionNames, name, 1)
    IN  IF found = Len(ExtensionNames) + 1
        THEN [err |-> NoError, id |-> Len(ExtensionNames) - 1]
        ELSE [err |-> NoError, id |-> found - 1]

\* the id is the distance found - begin; a name that is not found is posted
\* as ExtensionNameError and no id is returned
ExtensionId(name) ==
    LET found == FindIf(ExtensionNames, name, 1)
    IN  IF found = Len(ExtensionNames) + 1
        THEN [err |-> ExtensionNameError(name), id |-> -1]
        ELSE [err |-> NoError, id |-> found - 1]

ValidLayerName(name) == FindIf(LayerNames, name, 1) # Len(LayerNames) + 1

LayerId(name) ==
    LET found == FindIf(LayerNames, name, 1)
    IN  IF found = Len(LayerNames) + 1
        THEN [err |-> LayerNameError(name), id |-> -1]
        ELSE [err |-> NoError, id |-> found - 1]

(***************************************************************************)
(* The native runtime as the Library found it: the encoded version that    *)
(* vkEnumerateInstanceVersion reports and the enumerated layer and         *)
(* extension names.                                                        *)
(***************************************************************************)
LibraryConfigs ==
    { [rtVersion |-> ApiVersionEncode(ApiVersion(1, 3, 7)),
       m_layer_properties |-> << "VK_LAYER_KHRONOS_validation" >>,
       m_instance_extension_properties |->
           << "VK_KHR_get_physical_device_properties2",
              "VK_EXT_debug_utils" >>],
      [rtVersion |-> ApiVersionEncode(ApiVersion(1, 1, 0)),
       m_layer_properties |-> << >>,
       m_instance_extension_properties |-> << "VK_EXT_debug_utils" >>],
      [rtVersion |-> ApiVersionEncode(ApiVersion(1, 3, 7)),
       m_layer_properties |->
           << "VK_LAYER_KHRONOS_validation", "VK_LAYER_LUNARG_api_dump" >>,
       m_instance_extension_properties |->
           << "VK_KHR_surface", "VK_KHR_get_physical_device_properties2" >>] }

\* versions a caller asks for
RequestVersions ==
    { ApiVersion(0, 9, 0), ApiVersion(1, 0, 0), ApiVersion(1, 1, 0),
      ApiVersion(1, 2, 3), ApiVersion(1, 3, 7) }

\* results of a native create call
VkResults == { "VK_SUCCESS", "VK_ERROR_INITIALIZATION_FAILED" }

instanceAPIVersion(lib) == ApiVersionDecode(lib.rtVersion)

hasLayer(lib, layerId) ==
    \E i \in 1 .. Len(lib.m_layer_properties) :
        lib.m_layer_properties[i] = LayerName(layerId)

hasInstanceExtension(lib, extensionId) ==
    \E i \in 1 .. Len(lib.m_instance_extension_properties) :
        lib.m_instance_extension_properties[i] = ExtensionName(extensionId)

(***************************************************************************)
(* Helpers on sequences.                                                   *)
(***************************************************************************)
Range(s) == { s[i] : i \in 1 .. Len(s) }

Contains(s, x) == \E i \in 1 .. Len(s) : s[i] = x

NoDuplicates(s) == \A i, j \in 1 .. Len(s) : s[i] = s[j] => i = j

\* index of the first element of s that is in the set bad (0 if none)
FirstIn(s, bad) ==
    IF \E i \in 1 .. Len(s) : s[i] \in bad
    THEN CHOOSE i \in 1 .. Len(s) :
            s[i] \in bad /\ \A j \in 1 .. (i - 1) : s[j] \notin bad
    ELSE 0

(***************************************************************************)
(* CompiledInstanceCreateInfo (Instance.hpp)                               *)
(***************************************************************************)
\* mutant: the version check also rejects the advertised maximum itself
CheckApiVersion_Inclusive(lib, CI) ==
    IF ~ApiVersionLess(CI.apiVersion, instanceAPIVersion(lib))
    THEN ApiVersionUnsupported(instanceAPIVersion(lib), CI.apiVersion)
    ELSE NoError

\* the version check that opens the constructor
CheckApiVersion(lib, CI) ==
    IF ApiVersionLess(instanceAPIVersion(lib), CI.apiVersion)
    THEN ApiVersionUnsupported(instanceAPIVersion(lib), CI.apiVersion)
    ELSE NoError

\* mutant: the error names the first requested layer, offending or not
CheckLayers_FirstRequested(lib, CI) ==
    IF \E i \in 1 .. Len(CI.requestedLayers) :
            ~hasLayer(lib, CI.requestedLayers[i])
    THEN LayerUnsupported(CI.requestedLayers[1],
                          LayerName(CI.requestedLayers[1]))
    ELSE NoError

\* std::for_each over the requested layers: the first one the Library does
\* not have posts the error
CheckLayers(lib, CI) ==
    LET i == FirstIn(CI.requestedLayers,
                     { l \in LayerIds : ~hasLayer(lib, l) })
    IN  IF i # 0
        THEN LayerUnsupported(CI.requestedLayers[i],
                              LayerName(CI.requestedLayers[i]))
        ELSE NoError

\* std::for_each over the requested extensions
CheckExtensions(lib, CI) ==
    LET i == FirstIn(CI.requestedExtensions,
                     { e \in ExtIds : ~hasInstanceExtension(lib, e) })
    IN  IF i # 0
        THEN ExtensionUnsupported(CI.requestedExtensions[i],
                                  ExtensionName(CI.requestedExtensions[i]))
        ELSE NoError

\* mutant: the extension is added without looking for it in the request
AutoEnable_Unchecked(lib, requestedExtensions) ==
    IF hasInstanceExtension(lib, KHR_get_physical_device_properties2)
    THEN Append(requestedExtensions, KHR_get_physical_device_properties2)
    ELSE requestedExtensions

\* "Enable VK_KHR_get_physical_device_properties2 if possible."
AutoEnable(lib, requestedExtensions) ==
    IF /\ hasInstanceExtension(lib, KHR_get_physical_device_properties2)
       /\ ~Contains(requestedExtensions, KHR_get_physical_device_properties2)
    THEN Append(requestedExtensions, KHR_get_physical_device_properties2)
    ELSE requestedExtensions

CompiledInstanceCreateInfo(lib, CI) ==
    LET requestedExtensions == AutoEnable(lib, CI.requestedExtensions)
        failed(e) == [err |-> e, apiVersion |-> 0,
                      reqExtensionsNames |-> << >>, reqLayerNames |-> << >>]
    IN  IF CheckApiVersion(lib, CI) # NoError
        THEN failed(CheckApiVersion(lib, CI))
        ELSE IF CheckLayers(lib, CI) # NoError
        THEN failed(CheckLayers(lib, CI))
        ELSE IF CheckExtensions(lib, CI) # NoError
        THEN failed(CheckExtensions(lib, CI))
        ELSE [err |-> NoError,
              apiVersion |-> ApiVersionEncode(CI.apiVersion),
              reqExtensionsNames |->
                  [i \in 1 .. Len(requestedExtensions) |->
                      ExtensionName(requestedExtensions[i])],
              reqLayerNames |->
                  [i \in 1 .. Len(CI.requestedLayers) |->
                      LayerName(CI.requestedLayers[i])]]

NoTable == << 0, 0 >>

(***************************************************************************)
(* The chain of core tables and its walk (SymbolTable.hpp, Instance.hpp)   *)
(***************************************************************************)
\* std::derived_from<InstanceCore<major, minor>, SymbolTableBase<VkInstance>>
InstanceCoreDefined(major, minor) == major = 1 /\ minor \in 0 .. LastCoreMinor

\* mutant: the walk stops at the table it starts from
loadInstanceSymbols_First(major, minor, version) ==
    [err |-> NoError, table |-> << major, minor >>]

RECURSIVE loadInstanceSymbols(_, _, _)
loadInstanceSymbols(major, minor, version) ==
    IF ApiVersionGreater(version, ApiVersion(major, minor, UnsignedMax))
    THEN IF InstanceCoreDefined(major, minor + 1)
         THEN loadInstanceSymbols(major, minor + 1, version)
         ELSE IF InstanceCoreDefined(major + 1, 0)
         THEN loadInstanceSymbols(major + 1, 0, version)
         ELSE [err |-> ApiVersionUnsupported(ApiVersion(major, minor, 0),
                                             version),
               table |-> NoTable]
    ELSE [err |-> NoError, table |-> << major, minor >>]

(***************************************************************************)
(* State                                                                   *)
(***************************************************************************)
VARIABLES
    ExceptionsDisabled, \* the build's reporting mode (Exception.hpp)
    terminated,         \* std::terminate was reached
    library,            \* the constructed Library
    createInfo,         \* the caller's InstanceCreateInfo
    instance,           \* the Instance
    vkCreateInstance,   \* the calls made to the native vkCreateInstance
    vkDestroyInstance,  \* number of calls to the native vkDestroyInstance
    physicalDevice,     \* the caller's PhysicalDevice
    device,             \* the Device
    vkCreateDevice,     \* the calls made to the native vkCreateDevice
    vkDestroyDevice,    \* number of calls to the native vkDestroyDevice
    result,             \* outcome of the last operation
    translation,        \* a caller's last translation or query (Library.hpp)
    loader,             \* the native loader and runtime a Library is built on
    rootCalls,          \* calls made through the Library's root entry points
    irrecoverableCallbacks, \* __detail::irrecoverableCallbacks
    callbackLog,        \* the callback invocations made so far
    objects,            \* the owning wrappers of a caller
    nativeCalls,        \* native create / destroy calls made for them
    outcome,            \* how the last operation on a wrapper ended
    runtime,            \* a thread using the runtime C interface (Runtime.h)
    queueFamily,        \* a QueueFamily of a PhysicalDevice
    allocation,         \* a DefaultDeviceAllocation and its native memory
    descriptorPool,     \* a DescriptorPool and the sets allocated from it
    recorder            \* a command buffer and the recorder on it

vars == << ExceptionsDisabled, terminated, library, createInfo, instance,
           vkCreateInstance, vkDestroyInstance, physicalDevice, device,
           vkCreateDevice, vkDestroyDevice, result, translation, loader,
           rootCalls, irrecoverableCallbacks, callbackLog, objects,
           nativeCalls, outcome, runtime, queueFamily, allocation,
           descriptorPool, recorder >>

\* the variables of the Instance level and those of the Device level
instanceVars == << library, createInfo, instance, vkCreateInstance,
                   vkDestroyInstance >>
deviceVars == << physicalDevice, device, vkCreateDevice, vkDestroyDevice >>
\* the variables of name translation, of Library construction and of the
\* owning wrappers
namesVars == << translation >>
loaderVars == << loader, rootCalls >>
ownershipVars == << irrecoverableCallbacks, callbackLog, objects,
                   nativeCalls, outcome >>
\* the variables of the runtime interface and of the resources of a Device
resourceVars == << runtime, queueFamily, allocation, descriptorPool,
                  recorder >>

\* the two hierarchy levels an accessor can be bound to
Levels == { "instance", "device" }

NoInstance ==
    [state |-> "none", m_apiVer |-> NoVersion,
     m_coreInstanceSymbols |-> NoTable,
     m_enabledExtensions |-> {}, m_enabledLayers |-> {}]

NoPhysicalDevice ==
    [state |-> "none", apiVersion |-> 0, m_supportedExtensions |-> << >>,
     m_enabledExtensions |-> << >>, m_requestedApiVersion |-> NoVersion]

NoDevice ==
    [state |-> "none", m_apiVer |-> NoVersion,
     m_coreDeviceSymbols |-> NoTable, m_ph_device |-> NoPhysicalDevice]

Result(op, level, id, ver, err) ==
    [op |-> op, level |-> level, id |-> id, ver |-> ver, err |-> err]

\* nothing has been translated, loaded or wrapped yet
NoTranslation ==
    [op |-> "none", name |-> "", ext |-> 0, layer |-> 0, valid |-> FALSE,
     err |-> NoError]

NoLoader == [state |-> "none"]

\* no Library has been constructed
NoLibrary ==
    [rtVersion |-> 0, m_layer_properties |-> << >>,
     m_instance_extension_properties |-> << >>]

NamesIdle == translation = NoTranslation

LoaderIdle == loader = NoLoader /\ rootCalls = << >>

\* The owning wrappers a caller holds.  Two Instances (vk::Instance =
\* Unique<VkInstance>), a Device (Unique<VkDevice>), a SwapChain, a
\* DescriptorSet and a RenderPassRecorder (each a std::unique_ptr with a
\* deleter of its own).
Wrappers == { "I", "I2", "D", "S", "T", "P" }

Kind(w) ==
    CASE w \in { "I", "I2" } -> "Instance"
      [] w = "D" -> "Device"
      [] w = "S" -> "SwapChain"
      [] w = "T" -> "DescriptorSet"
      [] w = "P" -> "RenderPassRecorder"

NullHandle == "VK_NULL_HANDLE"

\* a native handle is named after the wrapper it was created for
Handles == Wrappers \cup { NullHandle }

\* state: none (not constructed), owning, empty (constructed, holds the
\* null handle), failed (the constructor did not complete), destroyed.
\* parent: the wrapper the deleter's StrongReference points to.
\* flag: DescriptorSet - the pool has FREE_DESCRIPTOR_SET_BIT;
\*       RenderPassRecorder - PassEnder::isSecondary.
NoObject ==
    [state |-> "none", handle |-> NullHandle, parent |-> "", flag |-> FALSE]

NoOutcome ==
    [op |-> "none", obj |-> "", from |-> "", err |-> NoError, how |-> "none",
     resolved |-> ""]

OwnershipIdle ==
    /\ irrecoverableCallbacks = << >>
    /\ callbackLog = << >>
    /\ objects = [w \in Wrappers |-> NoObject]
    /\ nativeCalls = [h \in Handles |-> [created |-> 0, destroyed |-> 0]]
    /\ outcome = NoOutcome

\* nothing of the kind is in use
Unused == [state |-> "none"]

ResourcesIdle ==
    /\ runtime = Unused
    /\ queueFamily = Unused
    /\ allocation = Unused
    /\ descriptorPool = Unused
    /\ recorder = Unused

\* no Instance has been asked for
ContextIdle ==
    /\ terminated = FALSE
    /\ createInfo = [requestedExtensions |-> << >>,
                     requestedLayers |-> << >>,
                     apiVersion |-> ApiVersion(1, 0, 0)]
    /\ instance = NoInstance
    /\ vkCreateInstance = << >>
    /\ vkDestroyInstance = 0
    /\ physicalDevice = NoPhysicalDevice
    /\ device = NoDevice
    /\ vkCreateDevice = << >>
    /\ vkDestroyDevice = 0

Init ==
    /\ ExceptionsDisabled \in BOOLEAN
    /\ library \in LibraryConfigs
    /\ ContextIdle
    /\ result = Result("Library", "", -1, NoVersion, NoError)
    /\ NamesIdle /\ LoaderIdle /\ OwnershipIdle /\ ResourcesIdle

(***************************************************************************)
(* InstanceCreateInfo.  The create-info is filled in before it is handed   *)
(* to the Instance constructor, which only reads it.                       *)
(***************************************************************************)
requestApiVersion(version) ==
    /\ ~terminated /\ instance.state = "none"
    /\ createInfo' = [createInfo EXCEPT !.apiVersion = version]
    /\ result' = Result("requestApiVersion", "", -1, version, NoError)
    /\ UNCHANGED << ExceptionsDisabled, resourceVars, namesVars, loaderVars,
                    ownershipVars, terminated, library, instance,
                    vkCreateInstance, vkDestroyInstance, deviceVars >>

requestExtension(e) ==
    /\ ~terminated /\ instance.state = "none"
    /\ Len(createInfo.requestedExtensions) < MaxRequested
    /\ createInfo' = [createInfo EXCEPT
                        !.requestedExtensions = Append(@, e)]
    /\ result' = Result("requestExtension", "", e, NoVersion, NoError)
    /\ UNCHANGED << ExceptionsDisabled, resourceVars, namesVars, loaderVars,
                    ownershipVars, terminated, library, instance,
                    vkCreateInstance, vkDestroyInstance, deviceVars >>

requestLayer(l) ==
    /\ ~terminated /\ instance.state = "none"
    /\ Len(createInfo.requestedLayers) < MaxRequested
    /\ createInfo' = [createInfo EXCEPT !.requestedLayers = Append(@, l)]
    /\ result' = Result("requestLayer", "", l, NoVersion, NoError)
    /\ UNCHANGED << ExceptionsDisabled, resourceVars, namesVars, loaderVars,
                    ownershipVars, terminated, library, instance,
                    vkCreateInstance, vkDestroyInstance, deviceVars >>

(***************************************************************************)
(* Instance::Instance                                                      *)
(***************************************************************************)
\* mutant: the recorded version is cut to the version of the table
InstanceMembers_Rounded(CI, table) ==
    [state |-> "alive",
     m_apiVer |-> ApiVersion(CI.apiVersion.major, CI.apiVersion.minor, 0),
     m_coreInstanceSymbols |-> table,
     m_enabledExtensions |-> Range(CI.requestedExtensions),
     m_enabledLayers |-> Range(CI.requestedLayers)]

\* the members of a constructed Instance: m_apiVer and the symbol table from
\* the initialiser list, the enabled sets from the constructor's body
InstanceMembers(CI, table) ==
    [state |-> "alive",
     m_apiVer |-> CI.apiVersion,
     m_coreInstanceSymbols |-> table,
     m_enabledExtensions |-> Range(CI.requestedExtensions),
     m_enabledLayers |-> Range(CI.requestedLayers)]

\* mutant: the native call is made before the request is looked at
InstanceConstruction_CallFirst(lib, CI, res) ==
    LET compiled == CompiledInstanceCreateInfo(lib, CI)
        symbols == loadInstanceSymbols(1, 0, CI.apiVersion)
        call == [apiVersion |-> ApiVersionEncode(CI.apiVersion),
                 ppEnabledExtensionNames |->
                     [i \in 1 .. Len(CI.requestedExtensions) |->
                         ExtensionName(CI.requestedExtensions[i])],
                 ppEnabledLayerNames |->
                     [i \in 1 .. Len(CI.requestedLayers) |->
                         LayerName(CI.requestedLayers[i])],
                 res |-> res]
        failedInstance == [NoInstance EXCEPT !.state = "failed"]
    IN  IF res # "VK_SUCCESS"
        THEN [err |-> VulkanError(res), inst |-> failedInstance,
              calls |-> << call >>, created |-> FALSE]
        ELSE IF compiled.err # NoError
        THEN [err |-> compiled.err, inst |-> failedInstance,
              calls |-> << call >>, created |-> TRUE]
        ELSE IF symbols.err # NoError
        THEN [err |-> symbols.err, inst |-> failedInstance,
              calls |-> << call >>, created |-> TRUE]
        ELSE [err |-> NoError, inst |-> InstanceMembers(CI, symbols.table),
              calls |-> << call >>, created |-> TRUE]

\* the outcome of the constructor for a native result res
InstanceConstruction(lib, CI, res) ==
    LET compiled == CompiledInstanceCreateInfo(lib, CI)
        symbols == loadInstanceSymbols(1, 0, CI.apiVersion)
        call == [apiVersion |-> compiled.apiVersion,
                 ppEnabledExtensionNames |-> compiled.reqExtensionsNames,
                 ppEnabledLayerNames |-> compiled.reqLayerNames,
                 res |-> res]
        failedInstance == [NoInstance EXCEPT !.state = "failed"]
    IN  IF compiled.err # NoError
        THEN [err |-> compiled.err, inst |-> failedInstance,
              calls |-> << >>, created |-> FALSE]
        ELSE IF res # "VK_SUCCESS"
        THEN [err |-> VulkanError(res), inst |-> failedInstance,
              calls |-> << call >>, created |-> FALSE]
        ELSE IF symbols.err # NoError
        THEN [err |-> symbols.err, inst |-> failedInstance,
              calls |-> << call >>, created |-> TRUE]
        ELSE [err |-> NoError, inst |-> InstanceMembers(CI, symbols.table),
              calls |-> << call >>, created |-> TRUE]

InstanceCtor ==
    /\ ~terminated /\ instance.state = "none"
    /\ \E res \in VkResults :
        LET c == InstanceConstruction(library, createInfo, res)
        IN  /\ instance' = c.inst
            /\ vkCreateInstance' = vkCreateInstance \o c.calls
            \* a constructor that throws after the base Unique<VkInstance>
            \* is complete unwinds through the deleter; std::terminate
            \* unwinds nothing
            /\ vkDestroyInstance' =
                 IF c.err # NoError /\ c.created /\ ~ExceptionsDisabled
                 THEN vkDestroyInstance + 1
                 ELSE vkDestroyInstance
            /\ terminated' = (c.err # NoError /\ ExceptionsDisabled)
            /\ result' = Result("Instance", "instance", -1,
                                createInfo.apiVersion, c.err)
    /\ UNCHANGED << ExceptionsDisabled, resourceVars, namesVars, loaderVars,
                    ownershipVars, library, createInfo, deviceVars >>

(***************************************************************************)
(* Instance::core<major, minor>(), Instance::isExtensionEnabled,           *)
(* Instance::isLayerEnabled                                                *)
(***************************************************************************)
\* the tables core<major, minor>() can be instantiated for
CoreTables == { << 1, m >> : m \in 0 .. LastCoreMinor }

InstanceCore(inst, major, minor) ==
    IF ApiVersionLess(inst.m_apiVer, ApiVersion(major, minor, 0))
    THEN SymbolsMissing(inst.m_apiVer, ApiVersion(major, minor, 0))
    ELSE NoError

InstanceIsExtensionEnabled(inst, extension) ==
    extension \in inst.m_enabledExtensions

isLayerEnabled(inst, layer) == layer \in inst.m_enabledLayers

\* a failing query changes nothing but the outcome (and ends the process in
\* a build without exceptions)
Query(res) ==
    /\ result' = res
    /\ terminated' = (res.err # NoError /\ ExceptionsDisabled)
    /\ UNCHANGED << ExceptionsDisabled, resourceVars, namesVars, loaderVars,
                    ownershipVars, instanceVars, deviceVars >>

InstanceCoreCall(major, minor) ==
    /\ ~terminated /\ instance.state = "alive"
    /\ Query(Result("core", "instance", -1, ApiVersion(major, minor, 0),
                    InstanceCore(instance, major, minor)))

(***************************************************************************)
(* Layer<id>(instance)  (Layers.hpp)                                       *)
(***************************************************************************)
\* mutant: the accessor asks what the Library advertises, not what the
\* Instance enabled
Layer_Advertised(inst, id) ==
    IF ~hasLayer(library, id) THEN LayerMissing(id, LayerName(id))
    ELSE NoError

Layer(inst, id) ==
    IF ~isLayerEnabled(inst, id) THEN LayerMissing(id, LayerName(id))
    ELSE NoError

LayerCtor(id) ==
    /\ ~terminated /\ instance.state = "alive"
    /\ Query(Result("Layer", "instance", id, NoVersion, Layer(instance, id)))

(***************************************************************************)
(* PhysicalDevice (PhysicalDevice.hpp)                                     *)
(***************************************************************************)
\* what the native runtime reports for the physical device: the encoded
\* VkPhysicalDeviceProperties::apiVersion and the device extension names
PhysicalDeviceConfigs ==
    { [apiVersion |-> ApiVersionEncode(ApiVersion(1, 3, 7)),
       extensions |-> << "VK_EXT_memory_budget", "VK_EXT_debug_utils" >>],
      [apiVersion |-> ApiVersionEncode(ApiVersion(1, 1, 0)),
       extensions |-> << "VK_KHR_swapchain", "VK_EXT_debug_utils" >>] }

\* versions a caller asks the PhysicalDevice for
DeviceRequestVersions ==
    { ApiVersion(1, 1, 0), ApiVersion(1, 2, 3), ApiVersion(1, 3, 7) }

RECURSIVE SupportedExtensions(_)
\* the loop over the enumerated properties: names the table does not know
\* are skipped, the others are translated to ids
SupportedExtensions(names) ==
    IF names = << >> THEN << >>
    ELSE IF ~ValidExtensionName(Head(names))
         THEN SupportedExtensions(Tail(names))
         ELSE << ExtensionId(Head(names)).id >>
                  \o SupportedExtensions(Tail(names))

PhysicalDeviceCtor(native) ==
    [state |-> "present",
     apiVersion |-> native.apiVersion,
     m_supportedExtensions |-> SupportedExtensions(native.extensions),
     m_enabledExtensions |-> << >>,
     m_requestedApiVersion |-> ApiVersion(1, 0, 0)]

supportedApiVersion(pd) == ApiVersionDecode(pd.apiVersion)

extensionSupported(pd, extension) ==
    Contains(pd.m_supportedExtensions, extension)

PhysicalDeviceIsExtensionEnabled(pd, id) ==
    Cardinality({ i \in 1 .. Len(pd.m_enabledExtensions) :
                    pd.m_enabledExtensions[i] = id }) # 0

\* mutant: the version is stored before it is compared
PhysicalDeviceRequestApiVersion_StoreFirst(pd, version) ==
    IF ApiVersionGreater(version, supportedApiVersion(pd))
    THEN [err |-> ApiVersionUnsupported(supportedApiVersion(pd), version),
          pd |-> [pd EXCEPT !.m_requestedApiVersion = version]]
    ELSE [err |-> NoError,
          pd |-> [pd EXCEPT !.m_requestedApiVersion = version]]

\* PhysicalDevice::requestApiVersion : the error, and the device afterwards
PhysicalDeviceRequestApiVersion(pd, version) ==
    IF ApiVersionGreater(version, supportedApiVersion(pd))
    THEN [err |-> ApiVersionUnsupported(supportedApiVersion(pd), version),
          pd |-> pd]
    ELSE [err |-> NoError,
          pd |-> [pd EXCEPT !.m_requestedApiVersion = version]]

\* mutant: the extension is appended without looking at the enabled list
enableExtension_Append(pd, extension) ==
    IF ~extensionSupported(pd, extension)
    THEN [err |-> ExtensionUnsupported(extension, ExtensionName(extension)),
          pd |-> pd]
    ELSE [err |-> NoError,
          pd |-> [pd EXCEPT !.m_enabledExtensions = Append(@, extension)]]

\* PhysicalDevice::enableExtension : the error, and the device afterwards
enableExtension(pd, extension) ==
    IF ~extensionSupported(pd, extension)
    THEN [err |-> ExtensionUnsupported(extension, ExtensionName(extension)),
          pd |-> pd]
    ELSE IF Contains(pd.m_enabledExtensions, extension)
    THEN [err |-> NoError, pd |-> pd]
    ELSE [err |-> NoError,
          pd |-> [pd EXCEPT !.m_enabledExtensions = Append(@, extension)]]

\* PhysicalDevice::enumerate : every query goes through instance.core<1, 0>()
enumerate ==
    /\ ~terminated /\ instance.state = "alive"
    /\ physicalDevice.state = "none"
    /\ \E native \in PhysicalDeviceConfigs :
        LET e == InstanceCore(instance, 1, 0)
        IN  /\ physicalDevice' =
                 IF e = NoError THEN PhysicalDeviceCtor(native)
                 ELSE physicalDevice
            /\ result' = Result("enumerate", "instance", -1, NoVersion, e)
            /\ terminated' = (e # NoError /\ ExceptionsDisabled)
    /\ UNCHANGED << ExceptionsDisabled, resourceVars, namesVars, loaderVars,
                    ownershipVars, instanceVars, device,
                    vkCreateDevice, vkDestroyDevice >>

\* the PhysicalDevice is set up before it is handed (by value) to the Device
requestDeviceApiVersion(version) ==
    /\ ~terminated /\ physicalDevice.state = "present"
    /\ device.state = "none"
    /\ LET r == PhysicalDeviceRequestApiVersion(physicalDevice, version)
       IN  /\ physicalDevice' = r.pd
           /\ result' = Result("requestApiVersion", "device", -1, version,
                               r.err)
           /\ terminated' = (r.err # NoError /\ ExceptionsDisabled)
    /\ UNCHANGED << ExceptionsDisabled, resourceVars, namesVars, loaderVars,
                    ownershipVars, instanceVars, device,
                    vkCreateDevice, vkDestroyDevice >>

enableDeviceExtension(extension) ==
    /\ ~terminated /\ physicalDevice.state = "present"
    /\ device.state = "none"
    /\ LET r == enableExtension(physicalDevice, extension)
       IN  /\ physicalDevice' = r.pd
           /\ result' = Result("enableExtension", "device", extension,
                               NoVersion, r.err)
           /\ terminated' = (r.err # NoError /\ ExceptionsDisabled)
    /\ UNCHANGED << ExceptionsDisabled, resourceVars, namesVars, loaderVars,
                    ownershipVars, instanceVars, device,
                    vkCreateDevice, vkDestroyDevice >>

(***************************************************************************)
(* DeviceInfo and Device (Device.hpp)                                      *)
(***************************************************************************)
\* std::derived_from<DeviceCore<major, minor>, SymbolTableBase<VkDevice>>
DeviceCoreDefined(major, minor) == major = 1 /\ minor \in 0 .. LastCoreMinor

RECURSIVE loadDeviceSymbols_RevisionZero(_, _, _)
\* mutant: the walk compares with revision 0 of the table's version
loadDeviceSymbols_RevisionZero(major, minor, version) ==
    IF ApiVersionGreater(version, ApiVersion(major, minor, 0))
    THEN IF DeviceCoreDefined(major, minor + 1)
         THEN loadDeviceSymbols_RevisionZero(major, minor + 1, version)
         ELSE IF DeviceCoreDefined(major + 1, 0)
         THEN loadDeviceSymbols_RevisionZero(major + 1, 0, version)
         ELSE [err |-> ApiVersionUnsupported(ApiVersion(major, minor, 0),
                                             version),
               table |-> NoTable]
    ELSE [err |-> NoError, table |-> << major, minor >>]

RECURSIVE loadDeviceSymbols(_, _, _)
loadDeviceSymbols(major, minor, version) ==
    IF ApiVersionGreater(version, ApiVersion(major, minor, UnsignedMax))
    THEN IF DeviceCoreDefined(major, minor + 1)
         THEN loadDeviceSymbols(major, minor + 1, version)
         ELSE IF DeviceCoreDefined(major + 1, 0)
         THEN loadDeviceSymbols(major + 1, 0, version)
         ELSE [err |-> ApiVersionUnsupported(ApiVersion(major, minor, 0),
                                             version),
               table |-> NoTable]
    ELSE [err |-> NoError, table |-> << major, minor >>]

\* DeviceInfo::DeviceInfo : the Device's own copy of the PhysicalDevice, with
\* VK_EXT_memory_budget added if possible, and the names for the native call
DeviceInfo(parent, phDevice) ==
    LET m_ph_device ==
            IF /\ InstanceIsExtensionEnabled(parent,
                       KHR_get_physical_device_properties2)
               /\ extensionSupported(phDevice, EXT_memory_budget)
               /\ ~Contains(phDevice.m_enabledExtensions, EXT_memory_budget)
            THEN enableExtension(phDevice, EXT_memory_budget).pd
            ELSE phDevice
    IN  [m_ph_device |-> m_ph_device,
         m_enabledExtensionsRaw |->
             [i \in 1 .. Len(m_ph_device.m_enabledExtensions) |->
                 ExtensionName(m_ph_device.m_enabledExtensions[i])],
         m_apiVer |-> m_ph_device.m_requestedApiVersion]

\* the outcome of Device::Device for a native result res
DeviceConstruction(parent, phDevice, res) ==
    LET info == DeviceInfo(parent, phDevice)
        ctor == InstanceCore(parent, 1, 0)   \* TypeTraits::getConstructor
        symbols ==
            loadDeviceSymbols(1, 0, info.m_ph_device.m_requestedApiVersion)
        call == [apiVersion |-> ApiVersionEncode(info.m_apiVer),
                 ppEnabledExtensionNames |-> info.m_enabledExtensionsRaw,
                 res |-> res]
        failedDevice == [NoDevice EXCEPT !.state = "failed"]
    IN  IF ctor # NoError
        THEN [err |-> ctor, dev |-> failedDevice,
              calls |-> << >>, created |-> FALSE]
        ELSE IF res # "VK_SUCCESS"
        THEN [err |-> VulkanError(res), dev |-> failedDevice,
              calls |-> << call >>, created |-> FALSE]
        ELSE IF symbols.err # NoError
        THEN [err |-> symbols.err, dev |-> failedDevice,
              calls |-> << call >>, created |-> TRUE]
        ELSE [err |-> NoError,
              dev |-> [state |-> "alive",
                       m_apiVer |-> info.m_apiVer,
                       m_coreDeviceSymbols |-> symbols.table,
                       m_ph_device |-> info.m_ph_device],
              calls |-> << call >>, created |-> TRUE]

\* mutant: a constructor that throws leaves the created handle alone
DeviceCtor_NoUnwind ==
    /\ ~terminated /\ instance.state = "alive"
    /\ physicalDevice.state = "present" /\ device.state = "none"
    /\ \E res \in VkResults :
        LET c == DeviceConstruction(instance, physicalDevice, res)
        IN  /\ device' = c.dev
            /\ vkCreateDevice' = vkCreateDevice \o c.calls
            /\ vkDestroyDevice' = vkDestroyDevice
            /\ terminated' = (c.err # NoError /\ ExceptionsDisabled)
            /\ result' = Result("Device", "device", -1,
                                physicalDevice.m_requestedApiVersion, c.err)
    /\ UNCHANGED << ExceptionsDisabled, resourceVars, namesVars, loaderVars,
                    ownershipVars, instanceVars, physicalDevice >>

DeviceCtor ==
    /\ ~terminated /\ instance.state = "alive"
    /\ physicalDevice.state = "present" /\ device.state = "none"
    /\ \E res \in VkResults :
        LET c == DeviceConstruction(instance, physicalDevice, res)
        IN  /\ device' = c.dev
            /\ vkCreateDevice' = vkCreateDevice \o c.calls
            /\ vkDestroyDevice' =
                 IF c.err # NoError /\ c.created /\ ~ExceptionsDisabled
                 THEN vkDestroyDevice + 1
                 ELSE vkDestroyDevice
            /\ terminated' = (c.err # NoError /\ ExceptionsDisabled)
            /\ result' = Result("Device", "device", -1,
                                physicalDevice.m_requestedApiVersion, c.err)
    /\ UNCHANGED << ExceptionsDisabled, resourceVars, namesVars, loaderVars,
                    ownershipVars, instanceVars, physicalDevice >>

\* mutant: the gate also refuses the table of the negotiated version
DeviceCore_Inclusive(dev, major, minor) ==
    IF ~ApiVersionLess(ApiVersion(major, minor, 0), dev.m_apiVer)
    THEN SymbolsMissing(dev.m_apiVer, ApiVersion(major, minor, 0))
    ELSE NoError

DeviceCore(dev, major, minor) ==
    IF ApiVersionLess(dev.m_apiVer, ApiVersion(major, minor, 0))
    THEN SymbolsMissing(dev.m_apiVer, ApiVersion(major, minor, 0))
    ELSE NoError

DeviceCoreCall(major, minor) ==
    /\ ~terminated /\ device.state = "alive"
    /\ Query(Result("core", "device", -1, ApiVersion(major, minor, 0),
                    DeviceCore(device, major, minor)))

(***************************************************************************)
(* Extension<id>(instance), Extension<id>(device)  (Extensions.hpp)        *)
(***************************************************************************)
\* mutant: the Device inherits what its parent Instance enabled
isExtensionEnabled_Inherited(level, inst, dev, id) ==
    \/ InstanceIsExtensionEnabled(inst, id)
    \/ level = "device"
         /\ PhysicalDeviceIsExtensionEnabled(dev.m_ph_device, id)

\* __detail::isExtensionEnabled, one overload per level
isExtensionEnabled(level, inst, dev, id) ==
    IF level = "instance" THEN InstanceIsExtensionEnabled(inst, id)
    ELSE PhysicalDeviceIsExtensionEnabled(dev.m_ph_device, id)

\* __detail::getProcAddrOf : the Device's resolver comes out of the parent's
\* core<1, 0>() table
getProcAddrOf(level, inst) ==
    IF level = "instance" THEN NoError ELSE InstanceCore(inst, 1, 0)

ExtensionBase(level, inst, dev, id) ==
    IF getProcAddrOf(level, inst) # NoError THEN getProcAddrOf(level, inst)
    ELSE IF ~isExtensionEnabled(level, inst, dev, id)
    THEN ExtensionMissing(id, ExtensionName(id))
    ELSE NoError

ExtensionCtor(level, id) ==
    /\ ~terminated
    /\ instance.state = "alive"
    /\ level = "device" => device.state = "alive"
    /\ Query(Result("Extension", level, id, NoVersion,
                    ExtensionBase(level, instance, device, id)))

Next ==
    \/ \E v \in RequestVersions : requestApiVersion(v)
    \/ \E e \in ExtIds : requestExtension(e)
    \/ \E l \in LayerIds : requestLayer(l)
    \/ InstanceCtor
    \/ \E t \in CoreTables : InstanceCoreCall(t[1], t[2])
    \/ \E l \in LayerIds : LayerCtor(l)
    \/ enumerate
    \/ \E v \in DeviceRequestVersions : requestDeviceApiVersion(v)
    \/ \E e \in ExtIds : enableDeviceExtension(e)
    \/ DeviceCtor
    \/ \E t \in CoreTables : DeviceCoreCall(t[1], t[2])
    \/ \E level \in Levels, e \in ExtIds : ExtensionCtor(level, e)

Spec == Init /\ [][Next]_vars

(***************************************************************************)
(* Name <-> id translation as a caller uses it: the static functions of    *)
(* Library applied to a name, an ext and a layer the caller holds.         *)
(***************************************************************************)
\* the names a caller may hold: the entries of both tables and names that
\* are in neither
NameInputs ==
    Range(ExtensionNames) \cup Range(LayerNames) \cup
    { "", "VK_KHR_surface", "VK_KHR_swapchain", "VK_EXT_debug_util",
      "vk_ext_debug_utils", "VK_LAYER_KHRONOS_validation2" }

InitNames ==
    /\ ExceptionsDisabled \in BOOLEAN
    /\ library = NoLibrary
    /\ ContextIdle
    /\ result = Result("none", "", -1, NoVersion, NoError)
    /\ NamesIdle /\ LoaderIdle /\ OwnershipIdle /\ ResourcesIdle

\* a step of the caller: only the translation state (and, for a posted error
\* in a build without exceptions, the process) changes
Translate(t) ==
    /\ ~terminated
    /\ translation' = t
    /\ terminated' = (t.err # NoError /\ ExceptionsDisabled)
    /\ UNCHANGED << ExceptionsDisabled, resourceVars,
                    library, createInfo, instance,
                    vkCreateInstance, vkDestroyInstance, deviceVars, result,
                    loaderVars, ownershipVars >>

HoldName(name) ==
    Translate([translation EXCEPT !.op = "name", !.name = name,
                                  !.err = NoError])

HoldExt(id) ==
    Translate([translation EXCEPT !.op = "ext", !.ext = id, !.err = NoError])

HoldLayer(id) ==
    Translate([translation EXCEPT !.op = "layer", !.layer = id,
                                  !.err = NoError])

ExtensionNameCall ==
    Translate([translation EXCEPT !.op = "ExtensionName",
                                  !.name = ExtensionName(translation.ext),
                                  !.err = NoError])

LayerNameCall ==
    Translate([translation EXCEPT !.op = "LayerName",
                                  !.name = LayerName(translation.layer),
                                  !.err = NoError])

\* ext id = Library::ExtensionId(name); nothing is assigned when it throws
ExtensionIdCall ==
    LET r == ExtensionId(translation.name)
    IN  Translate([translation EXCEPT
                     !.op = "ExtensionId",
                     !.ext = IF r.err = NoError THEN r.id ELSE @,
                     !.err = r.err])

LayerIdCall ==
    LET r == LayerId(translation.name)
    IN  Translate([translation EXCEPT
                     !.op = "LayerId",
                     !.layer = IF r.err = NoError THEN r.id ELSE @,
                     !.err = r.err])

ValidExtensionNameCall ==
    Translate([translation EXCEPT
                 !.op = "ValidExtensionName",
                 !.valid = ValidExtensionName(translation.name),
                 !.err = NoError])

ValidLayerNameCall ==
    Translate([translation EXCEPT
                 !.op = "ValidLayerName",
                 !.valid = ValidLayerName(translation.name),
                 !.err = NoError])

NextNames ==
    \/ \E name \in NameInputs : HoldName(name)
    \/ \E id \in ExtIds : HoldExt(id)
    \/ \E id \in LayerIds : HoldLayer(id)
    \/ ExtensionNameCall
    \/ LayerNameCall
    \/ ExtensionIdCall
    \/ LayerIdCall
    \/ ValidExtensionNameCall
    \/ ValidLayerNameCall

SpecNames == InitNames /\ [][NextNames]_vars

(***************************************************************************)
(* Error reporting (Exception.hpp)                                         *)
(***************************************************************************)
\* the functions an application registers as callbacks
Callbacks == { "logError", "showDialog" }

\* how an operation ended: the error, the way it was reported (none, thrown,
\* callbacks, escaped = an exception left a destructor, undefined = a null
\* function pointer was called), the callback invocations made, whether the
\* process ended, the native destroy calls made and what the resolver gave
Effect(err, how, log, term, destroy, resolved) ==
    [err |-> err, how |-> how, log |-> log, terminated |-> term,
     destroy |-> destroy, resolved |-> resolved]

NoEffect == Effect(NoError, "none", << >>, FALSE, {}, "")

RECURSIVE InvokeCallbacks(_, _, _)
\* the loop of irrecoverableError over the registered callbacks, from
\* position i on
InvokeCallbacks(callbacks, e, i) ==
    IF i > Len(callbacks) THEN << >>
    ELSE << [callback |-> callbacks[i], e |-> e] >>
             \o InvokeCallbacks(callbacks, e, i + 1)

\* mutant: the loop leaves out the callback registered last
irrecoverableError_SkipLast(e) ==
    Effect(e, "callbacks",
           InvokeCallbacks(SubSeq(irrecoverableCallbacks, 1,
                                  Len(irrecoverableCallbacks) - 1), e, 1),
           TRUE, {}, "")

\* every callback is called with e, then std::terminate
irrecoverableError(e) ==
    Effect(e, "callbacks", InvokeCallbacks(irrecoverableCallbacks, e, 1),
           TRUE, {}, "")

\* mutant: the build without exceptions returns to the caller
postError_Returns(e) ==
    IF ExceptionsDisabled THEN Effect(e, "none", << >>, FALSE, {}, "")
    ELSE Effect(e, "thrown", << >>, FALSE, {}, "")

postError(e) ==
    IF ExceptionsDisabled THEN irrecoverableError(e)
    ELSE Effect(e, "thrown", << >>, FALSE, {}, "")

(***************************************************************************)
(* Back references.  StrongReference / ReferenceGuard are declared in      *)
(* vkw/ReferenceGuard.hpp; a reference is valid while its referent lives   *)
(* and its use after that is reported as an irrecoverable error.           *)
(***************************************************************************)
ReferenceInvalid(parent) ==
    Err("ReferenceInvalid", -1, parent, NoVersion, NoVersion)

\* mutant: the reference is handed out without a look at the referent
StrongReferenceGet_Unchecked(parent) == NoEffect

\* StrongReference::get() on a reference to the wrapper parent; the
\* Library, the DescriptorPool and the command buffer outlive every wrapper
\* here
StrongReferenceGet(parent) ==
    IF parent \in Wrappers /\ objects[parent].state = "destroyed"
    THEN irrecoverableError(ReferenceInvalid(parent))
    ELSE NoEffect

(***************************************************************************)
(* Deleters.  env is what the natives do when the deleter runs:            *)
(*   resolver : what the proc-address resolver returns for the destroy     *)
(*              entry point, "fn" or "null"                                *)
(*   res      : the VkResult of a native call that returns one             *)
(*   crash    : whether calling a null function pointer ends the process   *)
(***************************************************************************)
Resolved == { "fn", "null" }

Envs == [resolver : Resolved, res : VkResults, crash : BOOLEAN]

\* InstanceDestructor::operator() : vkDestroyInstance is looked up through
\* the Library; a null result is an irrecoverable error
InstanceDestructor(obj, env) ==
    IF env.resolver = "null"
    THEN [irrecoverableError(VulkanError("VK_ERROR_UNKNOWN"))
            EXCEPT !.resolved = "null"]
    ELSE Effect(NoError, "none", << >>, FALSE, { obj.handle }, "fn")

\* DeviceDestructor::operator() : getDestructor(m_creator.get()) looks
\* vkDestroyDevice up and the result is invoked as it is; calling a null
\* function pointer is undefined
DeviceDestructor(obj, env) ==
    LET ref == StrongReferenceGet(obj.parent)
    IN  IF ref.err # NoError THEN ref
        ELSE IF env.resolver = "null"
        THEN Effect(NoError, "undefined", << >>, env.crash, {}, "null")
        ELSE Effect(NoError, "none", << >>, FALSE, { obj.handle }, "fn")

\* SwapChainDestructor::operator() : the entry point was loaded when the
\* Extension<KHR_swapchain> member was built
SwapChainDestructor(obj, env) ==
    LET ref == StrongReferenceGet(obj.parent)
    IN  IF obj.handle = NullHandle THEN NoEffect
        ELSE IF ref.err # NoError THEN ref
        ELSE Effect(NoError, "none", << >>, FALSE, { obj.handle }, "")

\* DescriptorSet::SetDestructor and DescriptorPool::freeSet : a VulkanError
\* thrown by VK_CHECK_RESULT is caught and handed to irrecoverableError
SetDestructor(obj, env) ==
    LET ref == StrongReferenceGet(obj.parent)
    IN  IF obj.handle = NullHandle THEN NoEffect
        ELSE IF ref.err # NoError THEN ref
        ELSE IF ~obj.flag THEN NoEffect
        ELSE IF env.res # "VK_SUCCESS"
        THEN irrecoverableError(VulkanError(env.res))
        ELSE Effect(NoError, "none", << >>, FALSE, { obj.handle }, "")

\* RenderPassRecorder::PassEnder::operator() : vkCmdEndRenderPass returns
\* nothing, vkEndCommandBuffer goes through VK_CHECK_RESULT
PassEnder(obj, env) ==
    IF obj.handle = NullHandle THEN NoEffect
    ELSE IF ~obj.flag
    THEN Effect(NoError, "none", << >>, FALSE, { obj.handle }, "")
    ELSE IF env.res # "VK_SUCCESS" THEN postError(VulkanError(env.res))
    ELSE Effect(NoError, "none", << >>, FALSE, { obj.handle }, "")

Deleter(kind, obj, env) ==
    CASE kind = "Instance" -> InstanceDestructor(obj, env)
      [] kind = "Device" -> DeviceDestructor(obj, env)
      [] kind = "SwapChain" -> SwapChainDestructor(obj, env)
      [] kind = "DescriptorSet" -> SetDestructor(obj, env)
      [] kind = "RenderPassRecorder" -> PassEnder(obj, env)

\* mutant: the deleter is called whatever the pointer holds
UniquePtrDelete_Always(kind, obj, env) ==
    LET d == Deleter(kind, obj, env)
    IN  IF d.how = "thrown" THEN [d EXCEPT !.how = "escaped",
                                           !.terminated = TRUE]
        ELSE d

\* ~unique_ptr() and reset() : the deleter is called only for a pointer that
\* is not null; both are noexcept, an exception that leaves the deleter ends
\* in std::terminate
UniquePtrDelete(kind, obj, env) ==
    LET d == Deleter(kind, obj, env)
    IN  IF obj.handle = NullHandle THEN NoEffect
        ELSE IF d.how = "thrown" THEN [d EXCEPT !.how = "escaped",
                                                !.terminated = TRUE]
        ELSE d

(***************************************************************************)
(* Owning wrappers: construction, move, destruction                        *)
(***************************************************************************)
\* registrations a caller makes
MaxCallbacks == 2

InitOwnership ==
    /\ ExceptionsDisabled \in BOOLEAN
    /\ library = NoLibrary
    /\ ContextIdle
    /\ result = Result("none", "", -1, NoVersion, NoError)
    /\ NamesIdle /\ LoaderIdle /\ OwnershipIdle /\ ResourcesIdle

\* a step on the wrappers: objs are the wrappers afterwards, created the
\* handles the natives created, eff how the step ended
Finish(op, w, from, objs, created, eff) ==
    /\ objects' = objs
    /\ nativeCalls' =
         [h \in Handles |->
            [created |-> nativeCalls[h].created
                           + (IF h \in created THEN 1 ELSE 0),
             destroyed |-> nativeCalls[h].destroyed
                             + (IF h \in eff.destroy THEN 1 ELSE 0)]]
    /\ callbackLog' = callbackLog \o eff.log
    /\ terminated' = eff.terminated
    /\ outcome' = [op |-> op, obj |-> w, from |-> from, err |-> eff.err,
                   how |-> eff.how, resolved |-> eff.resolved]
    /\ UNCHANGED << ExceptionsDisabled, resourceVars,
                    library, createInfo, instance,
                    vkCreateInstance, vkDestroyInstance, deviceVars, result,
                    namesVars, loaderVars, irrecoverableCallbacks >>

addIrrecoverableErrorCallback(callback) ==
    /\ ~terminated
    /\ Len(irrecoverableCallbacks) < MaxCallbacks
    /\ irrecoverableCallbacks' = Append(irrecoverableCallbacks, callback)
    /\ outcome' = [NoOutcome EXCEPT !.op = "addIrrecoverableErrorCallback"]
    /\ UNCHANGED << ExceptionsDisabled, resourceVars,
                    terminated, library, createInfo,
                    instance, vkCreateInstance, vkDestroyInstance, deviceVars,
                    result, namesVars, loaderVars, callbackLog, objects,
                    nativeCalls >>

Owning(w, parent, flag) ==
    [state |-> "owning", handle |-> w, parent |-> parent, flag |-> flag]

Failed(parent, flag) ==
    [state |-> "failed", handle |-> NullHandle, parent |-> parent,
     flag |-> flag]

\* what a wrapper of the kind is created from and its deleter refers to: the
\* Library, an Instance, a Device, the DescriptorPool of a set, the command
\* buffer of a recorder
Creators(kind) ==
    CASE kind = "Instance" -> { "Library" }
      [] kind = "Device" ->
           { p \in Wrappers : Kind(p) = "Instance"
                                /\ objects[p].state = "owning" }
      [] kind = "SwapChain" ->
           { p \in Wrappers : Kind(p) = "Device"
                                /\ objects[p].state = "owning" }
      [] kind = "DescriptorSet" -> { "DescriptorPool" }
      [] kind = "RenderPassRecorder" -> { "CommandBuffer" }

\* Unique<T>::Unique : Deleter::create makes the native call under
\* VK_CHECK_RESULT, the pointer and the deleter are stored on success
UniqueCtor(w) ==
    /\ ~terminated /\ objects[w].state = "none"
    /\ Kind(w) \in { "Instance", "Device" }
    /\ \E parent \in Creators(Kind(w)), res \in VkResults :
         IF res = "VK_SUCCESS"
         THEN Finish("construct", w, "",
                     [objects EXCEPT ![w] = Owning(w, parent, FALSE)],
                     { w }, NoEffect)
         ELSE Finish("construct", w, "",
                     [objects EXCEPT ![w] = Failed(parent, FALSE)],
                     {}, postError(VulkanError(res)))

\* an exception thrown by a constructor body unwinds through the members
\* built so far: posted is how the error was posted, d what the member's
\* destructor did
Unwind(posted, d) ==
    IF posted.how # "thrown" THEN posted
    ELSE IF d.terminated THEN d
    ELSE [posted EXCEPT !.destroy = d.destroy]

\* SwapChain::SwapChain : m_swapchain starts around nullptr with a deleter
\* whose Extension<KHR_swapchain> member needs the extension enabled, is
\* reset to the created swapchain, and the images are queried afterwards
SwapChainCtor(w) ==
    /\ ~terminated /\ objects[w].state = "none"
    /\ Kind(w) = "SwapChain"
    /\ \E parent \in Creators(Kind(w)), enabled \in BOOLEAN,
          res \in VkResults, images \in VkResults, env \in Envs :
         LET owning == Owning(w, parent, FALSE)
             failed == Failed(parent, FALSE)
         IN  IF ~enabled
             THEN Finish("construct", w, "",
                         [objects EXCEPT ![w] = failed], {},
                         postError(ExtensionMissing(-1, "VK_KHR_swapchain")))
             ELSE IF res # "VK_SUCCESS"
             THEN Finish("construct", w, "",
                         [objects EXCEPT ![w] = failed], {},
                         Unwind(postError(VulkanError(res)),
                                UniquePtrDelete(Kind(w), failed, env)))
             ELSE IF images # "VK_SUCCESS"
             THEN Finish("construct", w, "",
                         [objects EXCEPT ![w] = failed], { w },
                         Unwind(postError(VulkanError(images)),
                                UniquePtrDelete(Kind(w), owning, env)))
             ELSE Finish("construct", w, "",
                         [objects EXCEPT ![w] = owning], { w }, NoEffect)

\* DescriptorSet::DescriptorSet : m_set(pool.allocateSet(layout), pool);
\* flag is the pool's VK_DESCRIPTOR_POOL_CREATE_FREE_DESCRIPTOR_SET_BIT
DescriptorSetCtor(w) ==
    /\ ~terminated /\ objects[w].state = "none"
    /\ Kind(w) = "DescriptorSet"
    /\ \E parent \in Creators(Kind(w)), flag \in BOOLEAN,
          res \in VkResults :
         IF res = "VK_SUCCESS"
         THEN Finish("construct", w, "",
                     [objects EXCEPT ![w] = Owning(w, parent, flag)],
                     { w }, NoEffect)
         ELSE Finish("construct", w, "",
                     [objects EXCEPT ![w] = Failed(parent, flag)],
                     {}, postError(VulkanError(res)))

\* RenderPassRecorder::RenderPassRecorder : m_ender holds the command
\* buffer from the start; the recorder of a secondary buffer (flag) then
\* begins the buffer under VK_CHECK_RESULT, the recorder of a primary one
\* begins the render pass, which returns nothing
RenderPassRecorderCtor(w) ==
    /\ ~terminated /\ objects[w].state = "none"
    /\ Kind(w) = "RenderPassRecorder"
    /\ \E parent \in Creators(Kind(w)), flag \in BOOLEAN,
          res \in VkResults, env \in Envs :
         LET owning == Owning(w, parent, flag)
         IN  IF flag /\ res # "VK_SUCCESS"
             THEN Finish("construct", w, "",
                         [objects EXCEPT ![w] = Failed(parent, flag)], {},
                         Unwind(postError(VulkanError(res)),
                                UniquePtrDelete(Kind(w), owning, env)))
             ELSE Finish("construct", w, "",
                         [objects EXCEPT ![w] = owning], { w }, NoEffect)

\* the moved-from wrapper: release() leaves the null handle behind
Released(obj) == [obj EXCEPT !.state = "empty", !.handle = NullHandle]

\* mutant: the source keeps its handle
Moved_Copied(from, to) ==
    [objects EXCEPT ![to] = objects[from]]

\* the wrappers after to has taken what from held
Moved(from, to) ==
    [objects EXCEPT
       ![to] = [objects[from] EXCEPT
                  !.state = IF objects[from].handle = NullHandle
                            THEN "empty" ELSE "owning"],
       ![from] = Released(objects[from])]

\* Unique<T>(Unique<T> &&) and operator=(Unique<T> &&), those of
\* std::unique_ptr: a target that holds a handle resets it first
Move(from, to) ==
    /\ ~terminated /\ from # to /\ Kind(from) = Kind(to)
    /\ Kind(from) \in { "Instance", "Device" }
    /\ objects[from].state \in { "owning", "empty" }
    /\ objects[to].state \in { "none", "owning", "empty" }
    /\ \E env \in Envs :
         LET d == IF objects[to].state = "none" THEN NoEffect
                  ELSE UniquePtrDelete(Kind(to), objects[to], env)
         IN  IF d.terminated
             THEN Finish("move", to, from, objects, {}, d)
             ELSE Finish("move", to, from, Moved(from, to), {}, d)

\* the wrapper after its destructor
Destroyed(obj) == [obj EXCEPT !.state = "destroyed", !.handle = NullHandle]

\* the destructor of a wrapper that was constructed
Destroy(w) ==
    /\ ~terminated
    /\ objects[w].state \in { "owning", "empty" }
    /\ \E env \in Envs :
         Finish("destroy", w, "",
                [objects EXCEPT ![w] = Destroyed(objects[w])], {},
                UniquePtrDelete(Kind(w), objects[w], env))

\* a caller that constructs, moves and destroys Instances, a Device and a
\* SwapChain
OwnedWrappers == { "I", "I2", "D", "S" }

NextOwnership ==
    \/ \E w \in OwnedWrappers : UniqueCtor(w)
    \/ \E w \in OwnedWrappers : SwapChainCtor(w)
    \/ \E from, to \in OwnedWrappers : Move(from, to)
    \/ \E w \in OwnedWrappers : Destroy(w)

SpecOwnership == InitOwnership /\ [][NextOwnership]_vars

\* a caller that registers callbacks and tears down an Instance, a Device,
\* a DescriptorSet and a RenderPassRecorder in any order
TeardownWrappers == { "I", "D", "T", "P" }

NextTeardown ==
    \/ \E callback \in Callbacks : addIrrecoverableErrorCallback(callback)
    \/ \E w \in TeardownWrappers : UniqueCtor(w)
    \/ \E w \in TeardownWrappers : DescriptorSetCtor(w)
    \/ \E w \in TeardownWrappers : RenderPassRecorderCtor(w)
    \/ \E w \in TeardownWrappers : Destroy(w)

SpecTeardown == InitOwnership /\ [][NextTeardown]_vars

(***************************************************************************)
(* Library::Library.  loader is what the constructor finds on the machine: *)
(*   loads               : vkw_loadVulkan gives a handle                   *)
(*   runtimeVersion      : what vkw_getRuntimeVersion reports              *)
(*   getInstanceProcAddr : what the loader's getInstanceProcAddr() returns *)
(*   unresolved          : root symbols vkGetInstanceProcAddr(nullptr, X)  *)
(*                         returns null for                                *)
(*   layers, global      : the installed layers and the instance           *)
(*                         extensions of the implementation                *)
(*   fails               : the enumeration whose first call returns an     *)
(*                         error                                           *)
(*   changed, by         : the enumeration whose list is one entry shorter *)
(*                         (-1) or longer (1) at the second call of the    *)
(*                         two-call idiom than at the first                *)
(***************************************************************************)
VulkanLoadError(details) ==
    Err("VulkanLoadError", -1, details, NoVersion, NoVersion)

\* ApiVersion(MajorVersion, MinorVersion, RevVersion) of the headers vkw was
\* built against
headerVersion == ApiVersion(1, 3, 0)

RuntimeVersions ==
    { ApiVersion(1, 2, 9), ApiVersion(1, 3, 0), ApiVersion(1, 4, 1),
      ApiVersion(2, 0, 0) }

\* the symbols of VKW_GET_SYMBOL, in the order the constructor resolves them
RootSymbols ==
    << "vkCreateInstance", "vkEnumerateInstanceExtensionProperties",
       "vkEnumerateInstanceLayerProperties", "vkEnumerateInstanceVersion" >>

\* the extensions a layer contributes
LayerExtensions ==
    [l \in Range(LayerNames) |->
       IF l = "VK_LAYER_KHRONOS_validation"
       THEN << "VK_EXT_debug_utils", "VK_EXT_validation_features" >>
       ELSE << "VK_EXT_memory_budget" >>]

\* the enumerations of the constructor: of the layers, of the global
\* extensions, and of the extensions of each layer
Stages == { "layers", "global" } \cup Range(LayerNames)

Loaders ==
    [state : { "installed" },
     loads : BOOLEAN,
     runtimeVersion : RuntimeVersions,
     getInstanceProcAddr : Resolved,
     unresolved : { {} } \cup { { RootSymbols[i] } : i \in 1 .. Len(RootSymbols) },
     layers : { << >>, << "VK_LAYER_KHRONOS_validation" >>,
                << "VK_LAYER_KHRONOS_validation",
                   "VK_LAYER_LUNARG_api_dump" >> },
     global : { << >>, << "VK_EXT_debug_utils" >>,
                << "VK_KHR_surface",
                   "VK_KHR_get_physical_device_properties2" >> },
     fails : { "none" } \cup Stages,
     changed : { "none" } \cup Stages,
     by : { -1, 1 }]

\* what vkEnumerateInstanceVersion reports
InstanceVersion == ApiVersionEncode(ApiVersion(1, 3, 7))

\* the check that opens the constructor's body
VersionMismatch(rtVersion, hrVersion) ==
    hrVersion.major # rtVersion.major \/ hrVersion.minor > rtVersion.minor

RootCall(fn, arg) == [fn |-> fn, arg |-> arg]

RECURSIVE GetSymbols_Unchecked(_, _)
\* mutant: a symbol is stored as the resolver gave it
GetSymbols_Unchecked(env, i) ==
    IF i > Len(RootSymbols) THEN [err |-> NoError, calls |-> << >>]
    ELSE LET rest == GetSymbols_Unchecked(env, i + 1)
         IN  [err |-> NoError,
              calls |-> << RootCall("vkGetInstanceProcAddr", RootSymbols[i]) >>
                          \o rest.calls]

RECURSIVE GetSymbols(_, _)
\* VKW_GET_SYMBOL for the symbols from position i on: the first one that
\* resolves to null posts VulkanLoadError
GetSymbols(env, i) ==
    IF i > Len(RootSymbols) THEN [err |-> NoError, calls |-> << >>]
    ELSE LET call == RootCall("vkGetInstanceProcAddr", RootSymbols[i])
             rest == GetSymbols(env, i + 1)
         IN  IF RootSymbols[i] \in env.unresolved
             THEN [err |-> VulkanLoadError(RootSymbols[i]),
                   calls |-> << call >>]
             ELSE [err |-> rest.err, calls |-> << call >> \o rest.calls]

\* std::vector::resize : cut, or filled up with value-initialised entries,
\* whose name is empty
Resize(s, n) == [i \in 1 .. n |-> IF i <= Len(s) THEN s[i] ELSE ""]

\* the list the native has when call number n (1 or 2) of an enumeration is
\* made
Available(env, stage, list, n) ==
    IF n = 2 /\ env.changed = stage
    THEN IF env.by = 1 THEN Append(list, "VK_EXT_headless_surface")
         ELSE SubSeq(list, 1, Len(list) - 1)
    ELSE list

\* One enumeration in the two-call idiom: the first call gives the count,
\* stored is resized to offset + count, the second call writes at most count
\* entries from offset on and gives the count it wrote; more entries than
\* count make it return VK_INCOMPLETE.
Enumerate(env, fn, stage, list, stored, offset) ==
    LET first == Available(env, stage, list, 1)
        second == Available(env, stage, list, 2)
        resized == Resize(stored, offset + Len(first))
        written == IF Len(second) < Len(first) THEN Len(second)
                   ELSE Len(first)
        filled == [i \in 1 .. Len(resized) |->
                     IF i > offset /\ i <= offset + written
                     THEN second[i - offset] ELSE resized[i]]
        call == RootCall(fn, stage)
    IN  IF env.fails = stage
        THEN [err |-> VulkanError("VK_ERROR_OUT_OF_HOST_MEMORY"),
              stored |-> stored, count |-> 0, calls |-> << call >>]
        ELSE IF Len(second) > Len(first)
        THEN [err |-> VulkanError("VK_INCOMPLETE"), stored |-> filled,
              count |-> written, calls |-> << call, call >>]
        ELSE [err |-> NoError, stored |-> filled, count |-> written,
              calls |-> << call, call >>]

RECURSIVE LayerLoop_NoOffset(_, _, _, _, _)
\* mutant: the extensions of every layer are written from the start of the
\* list
LayerLoop_NoOffset(env, layers, i, stored, extensionAccumulated) ==
    IF i > Len(layers)
    THEN [err |-> NoError, stored |-> stored, calls |-> << >>]
    ELSE IF layers[i] \notin DOMAIN LayerExtensions
    THEN [err |-> VulkanError("VK_ERROR_LAYER_NOT_PRESENT"),
          stored |-> stored,
          calls |-> << RootCall("vkEnumerateInstanceExtensionProperties",
                                layers[i]) >>]
    ELSE LET e == Enumerate(env, "vkEnumerateInstanceExtensionProperties",
                            layers[i], LayerExtensions[layers[i]], stored, 0)
             rest == LayerLoop_NoOffset(env, layers, i + 1, e.stored, 0)
         IN  IF e.err # NoError
             THEN [err |-> e.err, stored |-> e.stored, calls |-> e.calls]
             ELSE [rest EXCEPT !.calls = e.calls \o rest.calls]

RECURSIVE LayerLoop(_, _, _, _, _)
\* the loop over m_layer_properties from position i on; a name the native
\* does not know as a layer gives VK_ERROR_LAYER_NOT_PRESENT
LayerLoop(env, layers, i, stored, extensionAccumulated) ==
    IF i > Len(layers)
    THEN [err |-> NoError, stored |-> stored, calls |-> << >>]
    ELSE IF layers[i] \notin DOMAIN LayerExtensions
    THEN [err |-> VulkanError("VK_ERROR_LAYER_NOT_PRESENT"),
          stored |-> stored,
          calls |-> << RootCall("vkEnumerateInstanceExtensionProperties",
                                layers[i]) >>]
    ELSE LET e == Enumerate(env, "vkEnumerateInstanceExtensionProperties",
                            layers[i], LayerExtensions[layers[i]], stored,
                            extensionAccumulated)
             rest == LayerLoop(env, layers, i + 1, e.stored,
                               extensionAccumulated + e.count)
         IN  IF e.err # NoError
             THEN [err |-> e.err, stored |-> e.stored, calls |-> e.calls]
             ELSE [rest EXCEPT !.calls = e.calls \o rest.calls]

\* the constructor on the machine env: the error it posts, the Library it
\* leaves and the calls it made through the root entry points
LibraryConstruction(env) ==
    LET failed(e, calls) == [err |-> e, lib |-> NoLibrary, calls |-> calls]
        symbols == GetSymbols(env, 1)
        layers == Enumerate(env, "vkEnumerateInstanceLayerProperties",
                            "layers", env.layers, << >>, 0)
        global == Enumerate(env, "vkEnumerateInstanceExtensionProperties",
                            "global", env.global, << >>, 0)
        perLayer == LayerLoop(env, layers.stored, 1, global.stored,
                              global.count)
    IN  IF ~env.loads
        THEN failed(VulkanLoadError("vkw_lastError"), << >>)
        ELSE IF VersionMismatch(env.runtimeVersion, headerVersion)
        THEN failed(ApiVersionUnsupported(env.runtimeVersion, headerVersion),
                    << >>)
        ELSE IF env.getInstanceProcAddr = "null"
        THEN failed(VulkanLoadError("vkGetInstanceProcAddr is null"), << >>)
        ELSE IF symbols.err # NoError
        THEN failed(symbols.err, symbols.calls)
        ELSE IF layers.err # NoError
        THEN failed(layers.err, symbols.calls \o layers.calls)
        ELSE IF global.err # NoError
        THEN failed(global.err,
                    symbols.calls \o layers.calls \o global.calls)
        ELSE IF perLayer.err # NoError
        THEN failed(perLayer.err,
                    symbols.calls \o layers.calls \o global.calls
                      \o perLayer.calls)
        ELSE [err |-> NoError,
              lib |-> [rtVersion |-> InstanceVersion,
                       m_layer_properties |-> layers.stored,
                       m_instance_extension_properties |-> perLayer.stored],
              calls |-> symbols.calls \o layers.calls \o global.calls
                          \o perLayer.calls]

InitLibrary ==
    /\ ExceptionsDisabled \in BOOLEAN
    /\ loader \in Loaders
    /\ rootCalls = << >>
    /\ library = NoLibrary
    /\ ContextIdle
    /\ result = Result("none", "", -1, NoVersion, NoError)
    /\ NamesIdle /\ OwnershipIdle /\ ResourcesIdle

LibraryCtor ==
    /\ ~terminated /\ loader.state = "installed"
    /\ LET c == LibraryConstruction(loader)
       IN  /\ library' = c.lib
           /\ rootCalls' = c.calls
           /\ loader' = [loader EXCEPT
                           !.state = IF c.err = NoError THEN "constructed"
                                     ELSE "failed"]
           /\ result' = Result("Library", "", -1, NoVersion, c.err)
           /\ terminated' = (c.err # NoError /\ ExceptionsDisabled)
    /\ UNCHANGED << ExceptionsDisabled, resourceVars,
                    namesVars, ownershipVars, createInfo,
                    instance, vkCreateInstance, vkDestroyInstance,
                    deviceVars >>

\* a query on the constructed Library; the answer is kept in translation
LibraryQuery(op, ext, layer, answer) ==
    /\ translation' = [NoTranslation EXCEPT !.op = op, !.ext = ext,
                                            !.layer = layer,
                                            !.valid = answer]
    /\ UNCHANGED << ExceptionsDisabled, resourceVars,
                    terminated, instanceVars, deviceVars,
                    result, loaderVars, ownershipVars >>

hasInstanceExtensionCall(extensionId) ==
    /\ ~terminated /\ loader.state = "constructed"
    /\ LibraryQuery("hasInstanceExtension", extensionId, 0,
                    hasInstanceExtension(library, extensionId))

hasLayerCall(layerId) ==
    /\ ~terminated /\ loader.state = "constructed"
    /\ LibraryQuery("hasLayer", 0, layerId, hasLayer(library, layerId))

NextLibrary ==
    \/ LibraryCtor
    \/ \E extensionId \in ExtIds : hasInstanceExtensionCall(extensionId)
    \/ \E layerId \in LayerIds : hasLayerCall(layerId)

SpecLibrary == InitLibrary /\ [][NextLibrary]_vars

(***************************************************************************)
(* The runtime C interface (Runtime.h).  runtime is one thread that calls  *)
(* it:                                                                     *)
(*   platform  : the branch of the preprocessor the runtime was built with *)
(*   calls     : number of calls made so far                               *)
(*   lastError : the thread_local string of getErrorString(): the function *)
(*               and the number of the call it was written for             *)
(*   handle    : the caller's handle variable a call was given              *)
(*   op, code  : the last call and the VKW_ErrorCode it returned           *)
(*   returned  : what vkw_lastError() returned                             *)
(***************************************************************************)
\* calls a thread makes
MaxCalls == 3

Platforms == { "win32", "linux" }

NoMessage == [about |-> "", call |-> 0]

\* the caller's handle variable before a call: initialised to null or not
\* initialised
HandleBefore == { "null", "indeterminate" }

InitRuntime ==
    /\ ExceptionsDisabled = FALSE
    /\ library = NoLibrary
    /\ ContextIdle
    /\ result = Result("none", "", -1, NoVersion, NoError)
    /\ NamesIdle /\ LoaderIdle /\ OwnershipIdle
    /\ runtime \in [state : { "ready" }, platform : Platforms,
                    calls : { 0 }, lastError : { NoMessage },
                    handle : { "null" }, op : { "none" },
                    code : { "VKW_OK" }, returned : { NoMessage }]
    /\ queueFamily = Unused /\ allocation = Unused
    /\ descriptorPool = Unused /\ recorder = Unused

\* a call of the interface ended: crashed tells whether the process ended
\* in the call
Returned(r, crashed) ==
    /\ runtime' = r
    /\ terminated' = crashed
    /\ UNCHANGED << ExceptionsDisabled, instanceVars, deviceVars, result,
                    namesVars, loaderVars, ownershipVars, queueFamily,
                    allocation, descriptorPool, recorder >>

\* mutant: the message is written on every platform
setErrorString_Everywhere(r, op) ==
    [r EXCEPT !.lastError = [about |-> op, call |-> r.calls]]

\* setErrorString in the win32 branch of vkw_loadVulkan and in vkw_spvLink;
\* the linux branch of vkw_loadVulkan assigns to the span that
\* getErrorString() returned by value, which leaves the buffer as it was
setErrorString(r, op) ==
    IF op = "vkw_loadVulkan" /\ r.platform = "linux" THEN r
    ELSE [r EXCEPT !.lastError = [about |-> op, call |-> r.calls]]

\* the call begins: it is counted, and the caller's variable is as the
\* caller left it
Called(op, before) ==
    [runtime EXCEPT !.op = op, !.calls = @ + 1, !.handle = before,
                    !.returned = NoMessage]

\* vkw_loadVulkan(handle).  pointer: the argument is not null; found: the
\* loader of the system finds the library; thrown: building the message
\* throws
vkw_loadVulkan(pointer, before, found, thrown, crash) ==
    /\ ~terminated /\ runtime.calls < MaxCalls
    /\ LET r == Called("vkw_loadVulkan", IF pointer THEN before ELSE "none")
       IN  IF found
           THEN IF pointer
                THEN Returned([r EXCEPT !.handle = "library",
                                        !.code = "VKW_OK"], FALSE)
                \* *handle = ret through a null pointer is undefined
                ELSE Returned([r EXCEPT !.code = IF crash THEN "none"
                                                 ELSE "VKW_OK"], crash)
           ELSE IF thrown
           THEN Returned([r EXCEPT !.code = "VKW_FATAL"], FALSE)
           ELSE Returned([setErrorString(r, "vkw_loadVulkan") EXCEPT
                            !.code = "VKW_VULKAN_LIB_MISSING"], FALSE)

\* vkw_createSpvContext(handle, msgConsumer, userData).  created: new
\* spvtools::Context succeeded
vkw_createSpvContext(before, created) ==
    /\ ~terminated /\ runtime.calls < MaxCalls
    /\ LET r == Called("vkw_createSpvContext", before)
       IN  IF created
           THEN Returned([r EXCEPT !.handle = "context",
                                   !.code = "VKW_OK"], FALSE)
           ELSE Returned([r EXCEPT !.handle = "null",
                                   !.code = "VKW_FATAL"], FALSE)

\* vkw_spvLink(handle, linkInfo, linked, linkedSize).  outputs: linked and
\* linkedSize are not null; success: spvtools::Link returned SPV_SUCCESS;
\* thrown: an exception reached the function-try-block
vkw_spvLink(outputs, success, thrown) ==
    /\ ~terminated /\ runtime.calls < MaxCalls
    /\ LET r == Called("vkw_spvLink", "context")
       IN  IF ~outputs
           THEN Returned([r EXCEPT !.code = "VKW_SPV_LINK_FAILED"], FALSE)
           ELSE IF thrown
           THEN Returned([r EXCEPT !.code = "VKW_FATAL"], FALSE)
           ELSE IF success
           THEN Returned([r EXCEPT !.code = "VKW_OK"], FALSE)
           ELSE Returned([setErrorString(r, "vkw_spvLink") EXCEPT
                            !.code = "VKW_SPV_LINK_FAILED"], FALSE)

vkw_lastError ==
    /\ ~terminated
    /\ Returned([runtime EXCEPT !.returned = runtime.lastError], FALSE)

NextRuntime ==
    \/ \E pointer, found, thrown, crash \in BOOLEAN,
          before \in HandleBefore :
         vkw_loadVulkan(pointer, before, found, thrown, crash)
    \/ \E before \in HandleBefore, created \in BOOLEAN :
         vkw_createSpvContext(before, created)
    \/ \E outputs, success, thrown \in BOOLEAN :
         vkw_spvLink(outputs, success, thrown)
    \/ vkw_lastError

SpecRuntime == InitRuntime /\ [][NextRuntime]_vars

(***************************************************************************)
(* QueueFamily (PhysicalDevice.hpp)                                        *)
(***************************************************************************)
\* the largest VkQueueFamilyProperties::queueCount of the model
MaxQueues == 3

\* queue priorities, in tenths; 0 is the default argument of requestQueue
Priorities == { 0, 5, 10 }

NoQueueError == [kind |-> "none", index |-> 0, requested |-> 0, max |-> 0]

NotEnoughQueues(index, requested, max) ==
    [kind |-> "NotEnoughQueues", index |-> index, requested |-> requested,
     max |-> max]

\* QueueFamily::QueueFamily(family, index)
QueueFamily(family, index) ==
    [state |-> "present", m_family |-> family, m_index |-> index,
     m_queuesRequested |-> << >>, op |-> "none", err |-> NoQueueError,
     queueInfo |-> << >>]

queueCount(f) == f.m_family.queueCount

queueRequestedCount(f) == Len(f.m_queuesRequested)

hasRequestedQueues(f) == f.m_queuesRequested # << >>

\* mutant: the family is full only once it holds more than queueCount
requestQueue_OnePastFull(f, priority) ==
    IF Len(f.m_queuesRequested) = queueCount(f) + 1
    THEN [err |-> NotEnoughQueues(f.m_index, queueCount(f) + 1,
                                  queueCount(f)),
          family |-> f]
    ELSE [err |-> NoQueueError,
          family |-> [f EXCEPT !.m_queuesRequested = Append(@, priority)]]

\* QueueFamily::requestQueue : the error, and the family afterwards
\* (postError does not return, so nothing is appended after it)
requestQueue(f, priority) ==
    IF Len(f.m_queuesRequested) = queueCount(f)
    THEN [err |-> NotEnoughQueues(f.m_index, queueCount(f) + 1,
                                  queueCount(f)),
          family |-> f]
    ELSE [err |-> NoQueueError,
          family |-> [f EXCEPT !.m_queuesRequested = Append(@, priority)]]

InitQueues ==
    /\ ExceptionsDisabled \in BOOLEAN
    /\ library = NoLibrary
    /\ ContextIdle
    /\ result = Result("none", "", -1, NoVersion, NoError)
    /\ NamesIdle /\ LoaderIdle /\ OwnershipIdle
    /\ \E count \in 0 .. MaxQueues, index \in 0 .. 1 :
         queueFamily = QueueFamily([queueCount |-> count], index)
    /\ runtime = Unused /\ allocation = Unused
    /\ descriptorPool = Unused /\ recorder = Unused

QueueFamilyStep(f, crashed) ==
    /\ queueFamily' = f
    /\ terminated' = crashed
    /\ UNCHANGED << ExceptionsDisabled, instanceVars, deviceVars, result,
                    namesVars, loaderVars, ownershipVars, runtime,
                    allocation, descriptorPool, recorder >>

RequestQueue(priority) ==
    /\ ~terminated /\ queueFamily.state = "present"
    /\ LET r == requestQueue(queueFamily, priority)
       IN  QueueFamilyStep([r.family EXCEPT !.op = "requestQueue",
                                           !.err = r.err,
                                           !.queueInfo = << >>],
                           r.err # NoQueueError /\ ExceptionsDisabled)

\* the loop of DeviceInfo::DeviceInfo over the families: a family with
\* requested queues gets one VkDeviceQueueCreateInfo
QueueCreateInfo ==
    /\ ~terminated /\ queueFamily.state = "present"
    /\ QueueFamilyStep(
          [queueFamily EXCEPT
             !.op = "DeviceInfo", !.err = NoQueueError,
             !.queueInfo =
                IF hasRequestedQueues(queueFamily)
                THEN << [queueFamilyIndex |-> queueFamily.m_index,
                         queueCount |-> queueRequestedCount(queueFamily),
                         pQueuePriorities |->
                             queueFamily.m_queuesRequested] >>
                ELSE << >>],
          FALSE)

NextQueues ==
    \/ \E priority \in Priorities : RequestQueue(priority)
    \/ QueueCreateInfo

SpecQueues == InitQueues /\ [][NextQueues]_vars

(***************************************************************************)
(* DefaultDeviceAllocation (Allocation.hpp)                                *)
(***************************************************************************)
\* calls of map() and unmap() on one allocation
MaxMemberCalls == 5

\* results of vmaMapMemory
MapResults == { "VK_SUCCESS", "VK_ERROR_MEMORY_MAP_FAILED" }

\* DefaultDeviceAllocation::DefaultDeviceAllocation.  mapped: the allocation
\* was created persistently mapped, vmaCreateBuffer / vmaCreateImage
\* filled m_allocInfo.pMappedData
DefaultDeviceAllocation(mapped) ==
    [state |-> "alive",
     pMappedData |-> IF mapped THEN "persistent" ELSE "null",
     mustUnmap |-> FALSE,
     calls |-> 0, op |-> "none", vma |-> << >>]

\* the native calls made so far
NativeMaps(a) ==
    Cardinality({ i \in DOMAIN a.vma : a.vma[i] = "vmaMapMemory" })
NativeUnmaps(a) ==
    Cardinality({ i \in DOMAIN a.vma : a.vma[i] = "vmaUnmapMemory" })

InitAllocation ==
    /\ ExceptionsDisabled \in BOOLEAN
    /\ library = NoLibrary
    /\ ContextIdle
    /\ result = Result("none", "", -1, NoVersion, NoError)
    /\ NamesIdle /\ LoaderIdle /\ OwnershipIdle
    /\ \E mapped \in BOOLEAN : allocation = DefaultDeviceAllocation(mapped)
    /\ runtime = Unused /\ queueFamily = Unused
    /\ descriptorPool = Unused /\ recorder = Unused

AllocationStep(a, crashed) ==
    /\ allocation' = a
    /\ terminated' = crashed
    /\ UNCHANGED << ExceptionsDisabled, instanceVars, deviceVars, result,
                    namesVars, loaderVars, ownershipVars, runtime,
                    queueFamily, descriptorPool, recorder >>

\* variant: the flag is set once vmaMapMemory has succeeded
map_FlagAfter(res) ==
    /\ ~terminated /\ allocation.state = "alive"
    /\ allocation.calls < MaxMemberCalls
    /\ LET a == [allocation EXCEPT !.op = "map", !.calls = @ + 1]
       IN  IF a.pMappedData # "null" \/ a.mustUnmap
           THEN AllocationStep(a, FALSE)
           ELSE IF res = "VK_SUCCESS"
           THEN AllocationStep(
                    [a EXCEPT !.mustUnmap = TRUE,
                              !.vma = Append(@, "vmaMapMemory"),
                              !.pMappedData = "mapped"], FALSE)
           ELSE AllocationStep(
                    [a EXCEPT !.vma = Append(@, "vmaMapMemory failed")],
                    ExceptionsDisabled)

\* DefaultDeviceAllocation::map.  The flag of the deleter is set before
\* vmaMapMemory is called; a failing vmaMapMemory leaves pMappedData as it
\* was and VK_CHECK_RESULT posts the error
map(res) ==
    /\ ~terminated /\ allocation.state = "alive"
    /\ allocation.calls < MaxMemberCalls
    /\ LET a == [allocation EXCEPT !.op = "map", !.calls = @ + 1]
       IN  IF a.pMappedData # "null" \/ a.mustUnmap
           THEN AllocationStep(a, FALSE)
           ELSE IF res = "VK_SUCCESS"
           THEN AllocationStep(
                    [a EXCEPT !.mustUnmap = TRUE,
                              !.vma = Append(@, "vmaMapMemory"),
                              !.pMappedData = "mapped"], FALSE)
           ELSE AllocationStep(
                    [a EXCEPT !.mustUnmap = TRUE,
                              !.vma = Append(@, "vmaMapMemory failed")],
                    ExceptionsDisabled)

\* DefaultDeviceAllocation::unmap
unmap ==
    /\ ~terminated /\ allocation.state = "alive"
    /\ allocation.calls < MaxMemberCalls
    /\ LET a == [allocation EXCEPT !.op = "unmap", !.calls = @ + 1]
       IN  IF a.pMappedData = "null" \/ ~a.mustUnmap
           THEN AllocationStep(a, FALSE)
           ELSE AllocationStep(
                    [a EXCEPT !.mustUnmap = FALSE,
                              !.vma = Append(@, "vmaUnmapMemory"),
                              !.pMappedData = "null"], FALSE)

\* AllocDeleter::operator() : the allocation is destroyed
AllocDeleter ==
    /\ ~terminated /\ allocation.state = "alive"
    /\ AllocationStep(
          [allocation EXCEPT
             !.state = "destroyed", !.op = "destroy",
             !.vma = IF allocation.mustUnmap
                     THEN @ \o << "vmaUnmapMemory", "vmaDestroy" >>
                     ELSE Append(@, "vmaDestroy")],
          FALSE)

NextAllocation ==
    \/ \E res \in MapResults : map(res)
    \/ unmap
    \/ AllocDeleter

SpecAllocation == InitAllocation /\ [][NextAllocation]_vars

(***************************************************************************)
(* DescriptorPool and the DescriptorSets allocated from it                 *)
(* (DescriptorPool.hpp, DescriptorSet.hpp)                                 *)
(***************************************************************************)
\* DescriptorSet constructions on one pool
MaxSets == 4

\* DescriptorPool::DescriptorPool.  freeBit: the creation flags hold
\* VK_DESCRIPTOR_POOL_CREATE_FREE_DESCRIPTOR_SET_BIT.  sets holds one entry
\* per DescriptorSet construction: "live", "destroyed" or "failed"
DescriptorPool(freeBit) ==
    [state |-> "alive", freeBit |-> freeBit, m_setCount |-> 0,
     sets |-> << >>, op |-> "none"]

currentSetsCount(pool) == pool.m_setCount

\* DescriptorPool::allocateSet for a native result res: the error, and the
\* pool afterwards
allocateSet(pool, res) ==
    IF res # "VK_SUCCESS"
    THEN [err |-> VulkanError(res), pool |-> pool]
    ELSE [err |-> NoError,
          pool |-> [pool EXCEPT !.m_setCount = @ + 1]]

\* variant: the set is counted out whatever the creation flags
freeSet_Counted(pool, res) ==
    IF ~pool.freeBit
    THEN [err |-> NoError,
          pool |-> [pool EXCEPT !.m_setCount = @ - 1]]
    ELSE IF res # "VK_SUCCESS"
    THEN [err |-> VulkanError(res), pool |-> pool]
    ELSE [err |-> NoError,
          pool |-> [pool EXCEPT !.m_setCount = @ - 1]]

\* DescriptorPool::freeSet for a native result res: the error handed to
\* irrecoverableError, and the pool afterwards
freeSet(pool, res) ==
    IF ~pool.freeBit
    THEN [err |-> NoError, pool |-> pool]
    ELSE IF res # "VK_SUCCESS"
    THEN [err |-> VulkanError(res), pool |-> pool]
    ELSE [err |-> NoError,
          pool |-> [pool EXCEPT !.m_setCount = @ - 1]]

InitPool ==
    /\ ExceptionsDisabled \in BOOLEAN
    /\ library = NoLibrary
    /\ ContextIdle
    /\ result = Result("none", "", -1, NoVersion, NoError)
    /\ NamesIdle /\ LoaderIdle /\ OwnershipIdle
    /\ \E freeBit \in BOOLEAN : descriptorPool = DescriptorPool(freeBit)
    /\ runtime = Unused /\ queueFamily = Unused
    /\ allocation = Unused /\ recorder = Unused

PoolStep(pool, crashed) ==
    /\ descriptorPool' = pool
    /\ terminated' = crashed
    /\ UNCHANGED << ExceptionsDisabled, instanceVars, deviceVars, result,
                    namesVars, loaderVars, ownershipVars, runtime,
                    queueFamily, allocation, recorder >>

\* DescriptorSet::DescriptorSet(pool, layout)
AllocateDescriptorSet(res) ==
    /\ ~terminated /\ descriptorPool.state = "alive"
    /\ Len(descriptorPool.sets) < MaxSets
    /\ LET r == allocateSet(descriptorPool, res)
       IN  PoolStep([r.pool EXCEPT
                       !.op = "DescriptorSet",
                       !.sets = Append(@, IF r.err = NoError THEN "live"
                                          ELSE "failed")],
                    r.err # NoError /\ ExceptionsDisabled)

\* DescriptorSet::~DescriptorSet of the i-th set : SetDestructor calls
\* freeSet, whose failure ends the process in both builds
DestroyDescriptorSet(i, res) ==
    /\ ~terminated /\ descriptorPool.state = "alive"
    /\ i \in DOMAIN descriptorPool.sets
    /\ descriptorPool.sets[i] = "live"
    /\ LET r == freeSet(descriptorPool, res)
       IN  PoolStep([r.pool EXCEPT !.op = "~DescriptorSet",
                                  !.sets[i] = "destroyed"],
                    r.err # NoError)

NextPool ==
    \/ \E res \in VkResults : AllocateDescriptorSet(res)
    \/ \E i \in 1 .. MaxSets, res \in VkResults : DestroyDescriptorSet(i, res)

SpecPool == InitPool /\ [][NextPool]_vars

(***************************************************************************)
(* BufferRecorder and the RenderPassRecorder of a secondary command buffer *)
(* (CommandRecorder.hpp)                                                   *)
(***************************************************************************)
\* recorders constructed, one after the other, on one command buffer
MaxRecorders == 3

Recorders == { "BufferRecorder", "RenderPassRecorder" }

\* results of vkBeginCommandBuffer and vkEndCommandBuffer
RecordResults == { "VK_SUCCESS", "VK_ERROR_OUT_OF_HOST_MEMORY" }

NativeCall(name, res) == [call |-> name, res |-> res]

\* no recorder yet: kind says which class records on the buffer, calls are
\* the native calls on the buffer
NoRecorder(kind) ==
    [state |-> "idle", kind |-> kind, constructed |-> 0, calls |-> << >>]

InitRecorder ==
    /\ ExceptionsDisabled \in BOOLEAN
    /\ library = NoLibrary
    /\ ContextIdle
    /\ result = Result("none", "", -1, NoVersion, NoError)
    /\ NamesIdle /\ LoaderIdle /\ OwnershipIdle
    /\ \E kind \in Recorders : recorder = NoRecorder(kind)
    /\ runtime = Unused /\ queueFamily = Unused
    /\ allocation = Unused /\ descriptorPool = Unused

RecorderStep(r, crashed) ==
    /\ recorder' = r
    /\ terminated' = crashed
    /\ UNCHANGED << ExceptionsDisabled, instanceVars, deviceVars, result,
                    namesVars, loaderVars, ownershipVars, runtime,
                    queueFamily, allocation, descriptorPool >>

\* RecordEnder::operator() and PassEnder::operator() with isSecondary, on a
\* buffer that is not null: the calls made, and whether an error is posted
\* (RecordEnder drops the result, PassEnder checks it)
Ender(kind, res) ==
    [calls |-> << NativeCall("vkEndCommandBuffer", res) >>,
     posted |-> kind = "RenderPassRecorder" /\ res # "VK_SUCCESS"]

\* variant: the ender is armed once vkBeginCommandBuffer has succeeded
RecorderConstruction_ArmedAfter(kind, beginRes, endRes) ==
    IF beginRes = "VK_SUCCESS"
    THEN [state |-> "recording", crashed |-> FALSE,
          calls |-> << NativeCall("vkBeginCommandBuffer", beginRes) >>]
    ELSE [state |-> "failed", crashed |-> ExceptionsDisabled,
          calls |-> << NativeCall("vkBeginCommandBuffer", beginRes) >>]

\* BufferRecorder::BufferRecorder and RenderPassRecorder::RenderPassRecorder
\* (SecondaryCommandBuffer &, ...): the member holding the ender is built
\* before the body calls vkBeginCommandBuffer; when that call fails in a
\* build with exceptions the constructor unwinds through the ender, and an
\* error posted by the ender while unwinding ends the process
RecorderConstruction(kind, beginRes, endRes) ==
    IF beginRes = "VK_SUCCESS"
    THEN [state |-> "recording", crashed |-> FALSE,
          calls |-> << NativeCall("vkBeginCommandBuffer", beginRes) >>]
    ELSE IF ExceptionsDisabled
    THEN [state |-> "failed", crashed |-> TRUE,
          calls |-> << NativeCall("vkBeginCommandBuffer", beginRes) >>]
    ELSE [state |-> "failed", crashed |-> Ender(kind, endRes).posted,
          calls |-> << NativeCall("vkBeginCommandBuffer", beginRes) >>
                      \o Ender(kind, endRes).calls]

RecorderCtor(beginRes, endRes) ==
    /\ ~terminated /\ recorder.state # "recording"
    /\ recorder.constructed < MaxRecorders
    /\ LET c == RecorderConstruction(recorder.kind, beginRes, endRes)
       IN  RecorderStep([recorder EXCEPT !.state = c.state,
                                         !.constructed = @ + 1,
                                         !.calls = @ \o c.calls],
                        c.crashed)

\* the recorder is destroyed: its ender runs on the buffer
RecorderDtor(endRes) ==
    /\ ~terminated /\ recorder.state = "recording"
    /\ LET e == Ender(recorder.kind, endRes)
       IN  RecorderStep([recorder EXCEPT !.state = "ended",
                                         !.calls = @ \o e.calls],
                        e.posted)

NextRecorder ==
    \/ \E beginRes, endRes \in RecordResults : RecorderCtor(beginRes, endRes)
    \/ \E endRes \in RecordResults : RecorderDtor(endRes)

SpecRecorder == InitRecorder /\ [][NextRecorder]_vars

(***************************************************************************)
(* Properties.  The comparisons and sets below are stated on their own,    *)
(* not through the operators of the model.                                 *)
(***************************************************************************)
Triple(v) == << v.major, v.minor, v.revision >>

TripleLess(a, b) ==
    \/ a[1] < b[1]
    \/ a[1] = b[1] /\ a[2] < b[2]
    \/ a[1] = b[1] /\ a[2] = b[2] /\ a[3] < b[3]

VLess(a, b) == TripleLess(Triple(a), Triple(b))
VLessEq(a, b) == ~VLess(b, a)

\* what the Library advertises
AdvertisedVersion ==
    LET w == library.rtVersion
    IN  [major |-> w \div 4194304, minor |-> (w \div 4096) % 1024,
         revision |-> w % 4096]
AdvertisedLayers ==
    { l \in LayerIds : LayerNames[l + 1] \in Range(library.m_layer_properties) }
AdvertisedExtensions ==
    { e \in ExtIds :
        ExtensionNames[e + 1] \in Range(library.m_instance_extension_properties) }

RequestedLayers == Range(createInfo.requestedLayers)
RequestedExtensions == Range(createInfo.requestedExtensions)

\* the Instance constructor has run on createInfo and nothing ran since
InstanceAttempted == result.op = "Instance"
NativeInstanceCreated ==
    /\ Len(vkCreateInstance) = 1
    /\ vkCreateInstance[1].res = "VK_SUCCESS"
RequestAdvertised ==
    /\ VLessEq(createInfo.apiVersion, AdvertisedVersion)
    /\ RequestedLayers \subseteq AdvertisedLayers
    /\ RequestedExtensions \subseteq AdvertisedExtensions

\* (major, minor) of v is no later than the last core table of the chain
WithinCoreChain(v) ==
    v.major < 1 \/ (v.major = 1 /\ v.minor <= LastCoreMinor)

\* C1 as claimed: a request within what the Library advertises, whose native
\* create call succeeds, always constructs, and apiVersion() is the requested
\* version.
C1_AsClaimed ==
    (InstanceAttempted /\ RequestAdvertised /\ NativeInstanceCreated)
        => /\ instance.state = "alive"
           /\ result.err = NoError
           /\ instance.m_apiVer = createInfo.apiVersion

\* C1 amended: a request within what the Library advertises, whose version
\* is also within the chain of core tables of the build and whose native
\* create call succeeds, constructs the Instance, and apiVersion() is the
\* requested version exactly, revision included.
C1_ExactVersion ==
    (InstanceAttempted /\ RequestAdvertised /\ NativeInstanceCreated
        /\ WithinCoreChain(createInfo.apiVersion))
        => /\ instance.state = "alive"
           /\ result.err = NoError
           /\ Triple(instance.m_apiVer) = Triple(createInfo.apiVersion)

C1_Witness ==
    /\ InstanceAttempted /\ RequestAdvertised /\ NativeInstanceCreated
    /\ instance.state = "alive"
    /\ instance.m_apiVer.revision # 0
    /\ VLess(instance.m_apiVer, AdvertisedVersion)
    /\ RequestedExtensions # {} /\ RequestedLayers # {}

\* the error of a rejected layer or extension names an offending entry of
\* the request, a layer if any layer offends
NamesOffender ==
    /\ instance.state = "failed"
    /\ vkCreateInstance = << >>
    /\ IF RequestedLayers \ AdvertisedLayers # {}
       THEN /\ result.err.kind = "LayerUnsupported"
            /\ result.err.id \in RequestedLayers \ AdvertisedLayers
            /\ result.err.name = LayerNames[result.err.id + 1]
       ELSE /\ result.err.kind = "ExtensionUnsupported"
            /\ result.err.id \in RequestedExtensions \ AdvertisedExtensions
            /\ result.err.name = ExtensionNames[result.err.id + 1]

SomeUnadvertised ==
    \/ RequestedLayers \ AdvertisedLayers # {}
    \/ RequestedExtensions \ AdvertisedExtensions # {}

\* C2 as claimed: every request naming an unadvertised layer or extension
\* fails with LayerUnsupported / ExtensionUnsupported naming an offender.
C2_AsClaimed == (InstanceAttempted /\ SomeUnadvertised) => NamesOffender

\* C2 amended: every request whose version is not above the advertised
\* maximum and that names an unadvertised layer or extension fails with
\* LayerUnsupported / ExtensionUnsupported carrying the id and name of an
\* unadvertised entry of the request; a layer if any layer offends.
C2_NamesOffender ==
    (InstanceAttempted /\ SomeUnadvertised
        /\ VLessEq(createInfo.apiVersion, AdvertisedVersion))
        => NamesOffender

\* an advertised layer is requested before the offending one, and an
\* extension offends too
C2_Witness ==
    /\ InstanceAttempted
    /\ VLessEq(createInfo.apiVersion, AdvertisedVersion)
    /\ Len(createInfo.requestedLayers) = 2
    /\ createInfo.requestedLayers[1] \in AdvertisedLayers
    /\ createInfo.requestedLayers[2] \notin AdvertisedLayers
    /\ RequestedExtensions \ AdvertisedExtensions # {}
    /\ result.err.kind = "LayerUnsupported"

\* what the PhysicalDevice supports
DeviceSupportedVersion ==
    LET w == physicalDevice.apiVersion
    IN  [major |-> w \div 4194304, minor |-> (w \div 4096) % 1024,
         revision |-> w % 4096]

\* C3: a version above the parent's maximum is rejected with
\* ApiVersionUnsupported carrying supported() = the maximum and
\* unsupported() = the request, by CompiledInstanceCreateInfo and by
\* PhysicalDevice::requestApiVersion; a version equal to (or below) the
\* maximum passes that check.
C3_VersionRejected ==
    /\ InstanceAttempted =>
         IF VLess(AdvertisedVersion, createInfo.apiVersion)
         THEN /\ result.err.kind = "ApiVersionUnsupported"
              /\ Triple(result.err.supported) = Triple(AdvertisedVersion)
              /\ Triple(result.err.unsupported) = Triple(createInfo.apiVersion)
              /\ instance.state = "failed"
         ELSE ~(/\ result.err.kind = "ApiVersionUnsupported"
                /\ Triple(result.err.supported) = Triple(AdvertisedVersion))
    /\ (result.op = "requestApiVersion" /\ result.level = "device") =>
         IF VLess(DeviceSupportedVersion, result.ver)
         THEN /\ result.err.kind = "ApiVersionUnsupported"
              /\ Triple(result.err.supported) = Triple(DeviceSupportedVersion)
              /\ Triple(result.err.unsupported) = Triple(result.ver)
         ELSE /\ result.err = NoError
              /\ physicalDevice.m_requestedApiVersion = result.ver

\* an Instance accepted at exactly the advertised maximum, and on its
\* PhysicalDevice a request above the supported version rejected
C3_Witness ==
    /\ instance.state = "alive"
    /\ Triple(instance.m_apiVer) = Triple(AdvertisedVersion)
    /\ result.op = "requestApiVersion" /\ result.level = "device"
    /\ result.err.kind = "ApiVersionUnsupported"
    /\ VLess(DeviceSupportedVersion, result.ver)

\* the version a live context was negotiated at
NegotiatedVersion(level) ==
    IF level = "instance" THEN instance.m_apiVer ELSE device.m_apiVer

\* C4: on a context negotiated at v, core<M, m>() succeeds for every table
\* (M, m) of the chain with (M, m, 0) <= v and fails with SymbolsMissing
\* for every (M, m, 0) > v; the call, failing or not, leaves the Instance
\* and the Device as they were, so a later call is judged against the same
\* v.
C4_CoreGate ==
    [][result'.op = "core" =>
        /\ instance' = instance /\ device' = device
        /\ << result'.ver.major, result'.ver.minor >> \in CoreTables
        /\ IF VLessEq(result'.ver, NegotiatedVersion(result'.level))
           THEN result'.err = NoError
           ELSE /\ result'.err.kind = "SymbolsMissing"
                /\ result'.err.supported = NegotiatedVersion(result'.level)
                /\ result'.err.unsupported = result'.ver]_vars

\* a core<M, m>() above the Device's version failed and the process goes on
C4_Witness ==
    /\ result.op = "core" /\ result.level = "device"
    /\ result.err.kind = "SymbolsMissing"
    /\ ~terminated
    /\ VLess(device.m_apiVer, result.ver)
    /\ VLessEq(ApiVersion(1, 1, 0), device.m_apiVer)

\* the highest table of the chain that does not exceed v
HighestTable(v) ==
    CHOOSE t \in CoreTables :
        /\ VLessEq(ApiVersion(t[1], t[2], 0), v)
        /\ \A u \in CoreTables :
             VLessEq(ApiVersion(u[1], u[2], 0), v) =>
                 TripleLess(<< u[1], u[2], 0 >>, << t[1], t[2], 1 >>)

\* symbol resolution has run: the native create call of the level succeeded
InstanceResolved == result.op = "Instance" /\ NativeInstanceCreated
DeviceResolved ==
    /\ result.op = "Device"
    /\ Len(vkCreateDevice) = 1 /\ vkCreateDevice[1].res = "VK_SUCCESS"

\* C5 as claimed: for every v >= 1.0.0 resolution loads the highest table
\* of the chain that does not exceed v, also for a v beyond the last table.
C5_AsClaimed ==
    /\ (InstanceResolved /\ VLessEq(ApiVersion(1, 0, 0), result.ver)) =>
         /\ instance.state = "alive"
         /\ instance.m_coreInstanceSymbols = HighestTable(result.ver)
    /\ (DeviceResolved /\ VLessEq(ApiVersion(1, 0, 0), result.ver)) =>
         /\ device.state = "alive"
         /\ device.m_coreDeviceSymbols = HighestTable(result.ver)

\* the outcome of resolution for the version v of the last constructor
ResolvedAt(state, table, v) ==
    IF WithinCoreChain(v)
    THEN /\ state = "alive"
         /\ table = HighestTable(v)
         /\ result.err = NoError
    ELSE /\ state = "failed"
         /\ result.err.kind = "ApiVersionUnsupported"
         /\ Triple(result.err.supported) = << 1, LastCoreMinor, 0 >>
         /\ Triple(result.err.unsupported) = Triple(v)

\* C5 amended: for every v >= 1.0.0 whose (major, minor) is not beyond the
\* last table of the chain, resolution loads the highest table of the chain
\* that does not exceed v; for a v beyond the last table it loads nothing
\* and fails with ApiVersionUnsupported (supported = the last table's
\* version, unsupported = v).
C5_HighestTable ==
    /\ (InstanceResolved /\ VLessEq(ApiVersion(1, 0, 0), result.ver)) =>
         ResolvedAt(instance.state, instance.m_coreInstanceSymbols,
                    result.ver)
    /\ (DeviceResolved /\ VLessEq(ApiVersion(1, 0, 0), result.ver)) =>
         ResolvedAt(device.state, device.m_coreDeviceSymbols, result.ver)

\* a Device resolved at a table that is neither the first nor the version
\* asked for
C5_Witness ==
    /\ DeviceResolved
    /\ device.state = "alive"
    /\ device.m_coreDeviceSymbols # << 1, 0 >>
    /\ device.m_apiVer.revision # 0
    /\ instance.m_coreInstanceSymbols # device.m_coreDeviceSymbols

\* the enabled sets a context recorded
InstanceEnabledExtensions == instance.m_enabledExtensions
DeviceEnabledExtensions == Range(device.m_ph_device.m_enabledExtensions)
EnabledExtensions(level) ==
    IF level = "instance" THEN InstanceEnabledExtensions
    ELSE DeviceEnabledExtensions

\* C6: Extension<id>(context) / Layer<id>(instance) succeeds only if id is
\* in the enabled set the context recorded; otherwise it fails with
\* ExtensionMissing / LayerMissing carrying id and its canonical name,
\* whether or not the parent advertises id.
C6_AccessorGate ==
    /\ result.op = "Extension" =>
         IF result.id \in EnabledExtensions(result.level)
         THEN result.err = NoError
         ELSE /\ result.err.kind = "ExtensionMissing"
              /\ result.err.id = result.id
              /\ result.err.name = ExtensionNames[result.id + 1]
    /\ result.op = "Layer" =>
         IF result.id \in instance.m_enabledLayers
         THEN result.err = NoError
         ELSE /\ result.err.kind = "LayerMissing"
              /\ result.err.id = result.id
              /\ result.err.name = LayerNames[result.id + 1]

\* the scenario of the design: two extensions advertised, one requested, the
\* accessor of the other fails with ExtensionMissing
C6_Witness ==
    /\ result.op = "Extension" /\ result.level = "instance"
    /\ result.err.kind = "ExtensionMissing"
    /\ result.id \in AdvertisedExtensions
    /\ InstanceEnabledExtensions # {}
    /\ InstanceEnabledExtensions \subseteq AdvertisedExtensions

\* C7: after Instance construction the recorded enabled-extension set equals
\* the set of extension names passed to the native create call.
C7_RecordedEqualsNative ==
    instance.state = "alive" =>
        { ExtensionNames[e + 1] : e \in InstanceEnabledExtensions }
            = Range(vkCreateInstance[1].ppEnabledExtensionNames)

\* names[1 .. Len(requested)] are the requested ones in order, and what
\* follows is at most the one name added, added only if supported (sup) and
\* not requested
Additive(names, requested, added, sup) ==
    /\ Len(names) >= Len(requested)
    /\ \A i \in 1 .. Len(requested) : names[i] = ExtensionNames[requested[i] + 1]
    /\ Len(names) <= Len(requested) + 1
    /\ Len(names) = Len(requested) + 1 =>
         /\ names[Len(names)] = ExtensionNames[added + 1]
         /\ sup
         /\ added \notin Range(requested)

\* C8: the extension names passed to the native create call contain every
\* requested extension, and the one the framework adds
\* (KHR_get_physical_device_properties2 for an Instance, EXT_memory_budget
\* for a Device) is appended only when it is supported and not requested;
\* when it is unsupported the request goes to the native call as it is.
C8_Additive ==
    /\ (InstanceAttempted /\ RequestAdvertised) => Len(vkCreateInstance) = 1
    /\ Len(vkCreateInstance) = 1 =>
         Additive(vkCreateInstance[1].ppEnabledExtensionNames,
                  createInfo.requestedExtensions,
                  KHR_get_physical_device_properties2,
                  KHR_get_physical_device_properties2 \in AdvertisedExtensions)
    /\ (result.op = "Device" /\ VLessEq(ApiVersion(1, 0, 0), instance.m_apiVer))
         => Len(vkCreateDevice) = 1
    /\ Len(vkCreateDevice) = 1 =>
         Additive(vkCreateDevice[1].ppEnabledExtensionNames,
                  physicalDevice.m_enabledExtensions,
                  EXT_memory_budget,
                  EXT_memory_budget \in Range(physicalDevice.m_supportedExtensions))

\* the Instance was asked for its extension and got it once; the Device
\* had its extension added behind a request that is kept
C8_Witness ==
    /\ Len(vkCreateInstance) = 1 /\ Len(vkCreateDevice) = 1
    /\ KHR_get_physical_device_properties2 \in RequestedExtensions
    /\ Len(vkCreateInstance[1].ppEnabledExtensionNames)
         = Len(createInfo.requestedExtensions)
    /\ Len(vkCreateDevice[1].ppEnabledExtensionNames)
         = Len(physicalDevice.m_enabledExtensions) + 1
    /\ physicalDevice.m_enabledExtensions # << >>

\* C9: the extension and layer name arrays handed to the native create call
\* hold no name twice, at either level.
C9_NoDuplicateNames ==
    /\ \A i \in 1 .. Len(vkCreateInstance) :
         /\ NoDuplicates(vkCreateInstance[i].ppEnabledExtensionNames)
         /\ NoDuplicates(vkCreateInstance[i].ppEnabledLayerNames)
    /\ \A i \in 1 .. Len(vkCreateDevice) :
         NoDuplicates(vkCreateDevice[i].ppEnabledExtensionNames)

\* C10: enabled sets are per level.  An accessor of the Device fails with
\* ExtensionMissing for an extension only the Instance enabled and succeeds
\* for one only the Device enabled; an accessor of the Instance fails for an
\* extension only the Device enabled and succeeds for one only the Instance
\* enabled.
C10_PerLevel ==
    (result.op = "Extension" /\ device.state = "alive") =>
        LET own == EnabledExtensions(result.level)
            other == EnabledExtensions(IF result.level = "instance"
                                       THEN "device" ELSE "instance")
        IN  /\ result.id \in other \ own =>
                 result.err = ExtensionMissing(result.id,
                                               ExtensionNames[result.id + 1])
            /\ result.id \in own \ other => result.err = NoError

\* an extension enabled on the Instance and not on the Device, refused to an
\* accessor of the Device
C10_Witness ==
    /\ result.op = "Extension" /\ result.level = "device"
    /\ device.state = "alive"
    /\ result.id \in InstanceEnabledExtensions \ DeviceEnabledExtensions
    /\ DeviceEnabledExtensions \ InstanceEnabledExtensions # {}
    /\ result.err.kind = "ExtensionMissing"

(***************************************************************************)
(* Name <-> id translation                                                 *)
(***************************************************************************)
\* C11: translating the name of a valid id back gives the id
\* (ExtensionId(ExtensionName(id)) = id, LayerId(LayerName(id)) = id);
\* translating a name that is not in the table fails with
\* ExtensionNameError / LayerNameError carrying the name and returns no id;
\* ValidExtensionName / ValidLayerName are true exactly for the names the
\* translation succeeds on.
C11_RoundTrip ==
    [][/\ (translation'.op = "ExtensionId") =>
            /\ translation.op = "ExtensionName" =>
                  /\ translation'.err = NoError
                  /\ translation'.ext = translation.ext
            /\ IF translation.name \in Range(ExtensionNames)
               THEN /\ translation'.err = NoError
                    /\ ExtensionNames[translation'.ext + 1] = translation.name
               ELSE /\ translation'.err.kind = "ExtensionNameError"
                    /\ translation'.err.name = translation.name
                    /\ translation'.ext = translation.ext
            /\ translation.op = "ValidExtensionName" =>
                  (translation.valid <=> translation'.err = NoError)
       /\ (translation'.op = "LayerId") =>
            /\ translation.op = "LayerName" =>
                  /\ translation'.err = NoError
                  /\ translation'.layer = translation.layer
            /\ IF translation.name \in Range(LayerNames)
               THEN /\ translation'.err = NoError
                    /\ LayerNames[translation'.layer + 1] = translation.name
               ELSE /\ translation'.err.kind = "LayerNameError"
                    /\ translation'.err.name = translation.name
                    /\ translation'.layer = translation.layer
            /\ translation.op = "ValidLayerName" =>
                  (translation.valid <=> translation'.err = NoError)
       /\ (translation'.op = "ValidExtensionName") =>
            (translation'.valid <=> translation.name \in Range(ExtensionNames))
       /\ (translation'.op = "ValidLayerName") =>
            (translation'.valid <=> translation.name \in Range(LayerNames))
      ]_vars

\* the name of a layer, held after the id of the last extension was
\* translated, is refused as an extension name and the process goes on
C11_Witness ==
    /\ translation.op = "ExtensionId"
    /\ translation.err.kind = "ExtensionNameError"
    /\ translation.name \in Range(LayerNames)
    /\ translation.ext = Len(ExtensionNames) - 1
    /\ ~terminated

(***************************************************************************)
(* Owning wrappers                                                         *)
(***************************************************************************)
\* the native destroy calls made so far for handle h
DestroyCalls(h) == nativeCalls[h].destroyed

\* the step destroyed wrapper w while it held handle h and the deleter made
\* its native call
DestroyedOnce(h) ==
    /\ nativeCalls[h].destroyed = 0
    /\ nativeCalls'[h].destroyed = 1
    /\ \A g \in Handles \ { h } : nativeCalls'[g] = nativeCalls[g]

\* C12: after b = move(a) of a Unique<T>, a holds the null handle and b the
\* handle a held; destroying a wrapper that holds the null handle makes no
\* native call; destroying the owner makes the native destroy call for its
\* handle once; and over every sequence of moves and destructions no handle
\* is destroyed more than once.
C12_MoveTransfers ==
    [][/\ (outcome'.op = "move" /\ ~terminated') =>
            /\ objects'[outcome'.from].handle = NullHandle
            /\ objects'[outcome'.from].state = "empty"
            /\ objects'[outcome'.obj].handle = objects[outcome'.from].handle
            /\ objects[outcome'.from].handle # NullHandle =>
                 /\ objects'[outcome'.obj].state = "owning"
                 /\ nativeCalls'[objects[outcome'.from].handle]
                      = nativeCalls[objects[outcome'.from].handle]
       /\ (outcome'.op = "destroy"
             /\ objects[outcome'.obj].handle = NullHandle) =>
            /\ nativeCalls' = nativeCalls
            /\ outcome'.how = "none" /\ ~terminated'
       /\ (outcome'.op = "destroy"
             /\ objects[outcome'.obj].handle # NullHandle
             /\ outcome'.how = "none") =>
            DestroyedOnce(objects[outcome'.obj].handle)
       /\ \A h \in Handles : nativeCalls'[h].destroyed <= 1
       /\ nativeCalls'[NullHandle].destroyed = 0
      ]_vars

\* I was moved to I2, both were destroyed, and the one handle, created for
\* I, was destroyed once
C12_Witness ==
    /\ objects["I"].state = "destroyed"
    /\ objects["I2"].state = "destroyed"
    /\ nativeCalls["I"].created = 1 /\ DestroyCalls("I") = 1
    /\ nativeCalls["I2"].created = 0
    /\ outcome.op = "destroy" /\ outcome.obj = "I"
    /\ ~terminated

\* the step constructed wrapper w and the native create call gave an error
CreateFailed(w) ==
    /\ outcome'.op = "construct" /\ outcome'.obj = w
    /\ outcome'.err.kind = "VulkanError"
    /\ nativeCalls'[w].created = nativeCalls[w].created

\* C13: a wrapper whose construction fails with a native create error is
\* failed for good, never owns a handle and never causes a destroy call; a
\* successful construction leaves it owning the created handle; a destroyed
\* wrapper stays destroyed; the native destroy is called once for an owned
\* handle and never for the null handle, also when the std::unique_ptr of a
\* SwapChain built around nullptr is destroyed.
C13_OwningStateMachine ==
    [][/\ \A w \in OwnedWrappers :
            /\ CreateFailed(w) =>
                 /\ objects'[w].state = "failed"
                 /\ objects'[w].handle = NullHandle
                 /\ \A h \in Handles :
                      nativeCalls'[h].destroyed = nativeCalls[h].destroyed
            /\ (outcome'.op = "construct" /\ outcome'.obj = w
                  /\ outcome'.err = NoError) =>
                 /\ objects'[w].state = "owning"
                 /\ objects'[w].handle = w
                 /\ nativeCalls'[w].created = 1
            /\ objects[w].state \in { "failed", "destroyed" } =>
                 objects'[w] = objects[w]
            /\ objects'[w].state \in { "failed", "destroyed", "empty", "none" }
                 => objects'[w].handle = NullHandle
            /\ (objects[w].state = "owning" /\ objects'[w].state = "destroyed"
                  /\ outcome'.how = "none") =>
                 DestroyedOnce(objects[w].handle)
       /\ \A h \in Handles :
            /\ nativeCalls'[h].destroyed <= nativeCalls'[h].created
            /\ nativeCalls'[h].created <= 1
       /\ nativeCalls'[NullHandle].destroyed = 0
       /\ \A w, v \in OwnedWrappers :
            (w # v /\ objects'[w].handle # NullHandle)
              => objects'[w].handle # objects'[v].handle
      ]_vars

\* the construction of the SwapChain failed in vkCreateSwapchainKHR, the
\* exception left the constructor through the std::unique_ptr that was built
\* around nullptr, and a moved-from Instance has been destroyed as well
C13_Witness ==
    /\ objects["S"].state = "failed"
    /\ outcome.op = "construct" /\ outcome.obj = "S"
    /\ outcome.err.kind = "VulkanError" /\ outcome.how = "thrown"
    /\ nativeCalls["S"].created = 0
    /\ objects["I"].state = "destroyed" /\ DestroyCalls("I") = 0
    /\ objects["I2"].state = "owning" /\ objects["I2"].handle = "I"
    /\ ~terminated

(***************************************************************************)
(* Teardown and error reporting                                            *)
(***************************************************************************)
\* the invocations irrecoverableError(e) makes: every registered callback,
\* once, in the order of registration
EachCallbackOnce(e) ==
    [i \in 1 .. Len(irrecoverableCallbacks) |->
       [callback |-> irrecoverableCallbacks[i], e |-> e]]

\* wrapper w owns a handle and the wrapper it was created from is destroyed
CreatorDestroyedFirst(w) ==
    /\ objects[w].state = "owning"
    /\ objects[w].parent \in Wrappers
    /\ objects[objects[w].parent].state = "destroyed"

\* C14: when a Device was built from an Instance, the Instance is destroyed
\* first and the Device's deleter then goes through its back reference, the
\* registered callbacks are each called once with the error of the invalid
\* reference and the process ends; the Instance's resolver is not asked and
\* no native call is made; nothing is reported again afterwards.
C14_AncestorFirstDetected ==
    [][/\ \A w \in TeardownWrappers :
            (Kind(w) = "Device" /\ CreatorDestroyedFirst(w)
               /\ outcome'.op = "destroy" /\ outcome'.obj = w) =>
              /\ outcome'.how = "callbacks"
              /\ outcome'.err = ReferenceInvalid(objects[w].parent)
              /\ callbackLog' = callbackLog \o EachCallbackOnce(outcome'.err)
              /\ terminated'
              /\ outcome'.resolved = ""
              /\ nativeCalls' = nativeCalls
       /\ terminated => callbackLog' = callbackLog
      ]_vars

\* Instance I was destroyed before Device D, D's destructor found the
\* reference invalid and the two registered callbacks were called
C14_Witness ==
    /\ objects["I"].state = "destroyed"
    /\ objects["D"].parent = "I"
    /\ outcome.op = "destroy" /\ outcome.obj = "D"
    /\ outcome.err.kind = "ReferenceInvalid"
    /\ irrecoverableCallbacks = << "logError", "showDialog" >>
    /\ callbackLog = EachCallbackOnce(ReferenceInvalid("I"))
    /\ terminated

\* C15: in either reporting mode a failure inside a destructor or deleter
\* (no vkDestroyInstance, a failing vkFreeDescriptorSets, a failing
\* vkEndCommandBuffer in PassEnder) is handed to the registered callbacks
\* and never leaves the destructor as an exception.
C15_TeardownReported ==
    (outcome.op = "destroy" /\ outcome.err # NoError) =>
        outcome.how = "callbacks"

\* the step constructed a wrapper whose constructor posts the error of its
\* native create call and has no member to unwind
PostedByConstructor ==
    /\ outcome'.op = "construct"
    /\ Kind(outcome'.obj) \in { "Instance", "Device", "DescriptorSet" }
    /\ outcome'.err # NoError

\* C16: postError(e) never returns.  With exceptions it throws e to its
\* caller and calls no callback; without them it calls irrecoverableError(e),
\* which calls every registered callback once, in the order of registration,
\* with e, and then ends the process.
C16_PostErrorNeverReturns ==
    [][/\ outcome'.err # NoError =>
            outcome'.how \in { "thrown", "callbacks", "escaped" }
       /\ PostedByConstructor =>
            /\ outcome'.err.kind = "VulkanError"
            /\ objects'[outcome'.obj].state = "failed"
            /\ ~ExceptionsDisabled =>
                 /\ outcome'.how = "thrown"
                 /\ callbackLog' = callbackLog
                 /\ ~terminated'
            /\ ExceptionsDisabled => outcome'.how = "callbacks"
       /\ outcome'.how = "callbacks" =>
            /\ callbackLog' = callbackLog \o EachCallbackOnce(outcome'.err)
            /\ terminated'
       /\ (outcome'.how # "callbacks" \/ terminated) =>
            callbackLog' = callbackLog
       /\ (ExceptionsDisabled /\ outcome'.err # NoError) =>
            outcome'.how = "callbacks"
      ]_vars

\* without exceptions, two callbacks were registered, showDialog first; the
\* construction of the Instance failed in vkCreateInstance and both were
\* called in that order with the VulkanError before the process ended
C16_Witness ==
    /\ ExceptionsDisabled
    /\ irrecoverableCallbacks = << "showDialog", "logError" >>
    /\ outcome.op = "construct" /\ outcome.obj = "I"
    /\ outcome.err.kind = "VulkanError" /\ outcome.how = "callbacks"
    /\ callbackLog = << [callback |-> "showDialog", e |-> outcome.err],
                        [callback |-> "logError", e |-> outcome.err] >>
    /\ terminated

\* C19: when the proc-address resolver returns null for the destroy entry
\* point a deleter looks up (vkDestroyInstance, vkDestroyDevice), the deleter
\* reports a typed error and the null function pointer is not called.
C19_NullNeverInvoked ==
    outcome.resolved = "null" =>
        /\ outcome.err # NoError
        /\ outcome.how # "undefined"

(***************************************************************************)
(* Validation before the native call                                       *)
(***************************************************************************)
\* the errors with which CompiledInstanceCreateInfo rejects a request
ValidationErrors ==
    { "ApiVersionUnsupported", "LayerUnsupported", "ExtensionUnsupported" }

\* C20: an Instance request that asks for a version above the advertised
\* maximum or for an unadvertised layer or extension is rejected before the
\* native call: vkCreateInstance was not called and no native instance
\* exists, none was destroyed either; vkCreateInstance is called at most
\* once by a construction, not before it, and only for a request that
\* passed every check.
C20_ValidationPrecedes ==
    /\ Len(vkCreateInstance) <= 1
    /\ instance.state = "none" => vkCreateInstance = << >>
    /\ Len(vkCreateInstance) = 1 => RequestAdvertised
    /\ (instance.state # "none" /\ ~RequestAdvertised) =>
         /\ vkCreateInstance = << >>
         /\ instance.state = "failed"
         /\ vkDestroyInstance = 0
    /\ (InstanceAttempted /\ ~RequestAdvertised) =>
         result.err.kind \in ValidationErrors

\* a request for an advertised version and advertised layers that names an
\* unadvertised extension was rejected, with exceptions, and the native
\* entry point was not called
C20_Witness ==
    /\ InstanceAttempted
    /\ VLessEq(createInfo.apiVersion, AdvertisedVersion)
    /\ RequestedLayers # {} /\ RequestedLayers \subseteq AdvertisedLayers
    /\ RequestedExtensions \ AdvertisedExtensions # {}
    /\ result.err.kind = "ExtensionUnsupported"
    /\ instance.state = "failed"
    /\ vkCreateInstance = << >>
    /\ ~terminated

(***************************************************************************)
(* Library construction                                                    *)
(***************************************************************************)
\* the Library constructor has run on the machine described by loader
LibraryAttempted == result.op = "Library" /\ loader.state # "installed"

\* the machine lacks what the constructor resolves
LoadImpossible ==
    \/ ~loader.loads
    \/ loader.getInstanceProcAddr = "null"
    \/ loader.unresolved # {}

\* the runtime of vkw is one the headers accept
RuntimeAccepted ==
    /\ loader.runtimeVersion.major = headerVersion.major
    /\ loader.runtimeVersion.minor >= headerVersion.minor

EnumerationCalls ==
    { i \in 1 .. Len(rootCalls) : rootCalls[i].fn # "vkGetInstanceProcAddr" }

\* C17 as claimed: whenever the native library does not load, the loader
\* yields a null vkGetInstanceProcAddr or a root entry point resolves to
\* null, the construction fails with VulkanLoadError.
C17_AsClaimed ==
    (LibraryAttempted /\ LoadImpossible) =>
        result.err.kind = "VulkanLoadError"

\* C17 amended: in each of these cases the construction fails and leaves no
\* Library; the error is VulkanLoadError when the native library does not
\* load, ApiVersionUnsupported when it loads and the vkw runtime version
\* does not fit the headers (that check runs before the resolver is asked),
\* and VulkanLoadError otherwise; no call is made through
\* vkGetInstanceProcAddr when it is null, none through an unresolved root
\* entry point, and no enumeration at all unless all four resolved.
C17_LoadErrors ==
    LibraryAttempted =>
        /\ LoadImpossible =>
             /\ result.err # NoError
             /\ loader.state = "failed" /\ library = NoLibrary
             /\ result.err.kind =
                  IF loader.loads /\ ~RuntimeAccepted
                  THEN "ApiVersionUnsupported" ELSE "VulkanLoadError"
        /\ (~loader.loads \/ loader.getInstanceProcAddr = "null") =>
             rootCalls = << >>
        /\ \A i \in 1 .. Len(rootCalls) :
             rootCalls[i].fn \notin loader.unresolved
        /\ loader.unresolved # {} => EnumerationCalls = {}

\* the library loaded, the runtime fits, vkGetInstanceProcAddr resolved the
\* first three root symbols and returned null for
\* vkEnumerateInstanceVersion: VulkanLoadError, and nothing was enumerated
C17_Witness ==
    /\ LibraryAttempted
    /\ loader.loads /\ RuntimeAccepted
    /\ loader.getInstanceProcAddr = "fn"
    /\ loader.unresolved = { "vkEnumerateInstanceVersion" }
    /\ result.err = VulkanLoadError("vkEnumerateInstanceVersion")
    /\ Len(rootCalls) = 4 /\ EnumerationCalls = {}
    /\ loader.layers # << >>
    /\ ~terminated

\* what an enumeration delivered: the list the native held at the second
\* call
Enumerated(stage, list) ==
    IF loader.changed = stage /\ loader.by = -1
    THEN SubSeq(list, 1, Len(list) - 1)
    ELSE list

RECURSIVE PerLayerLists(_, _)
\* the lists enumerated for the layers from position i on, one after another
PerLayerLists(layers, i) ==
    IF i > Len(layers) THEN << >>
    ELSE Enumerated(layers[i], LayerExtensions[layers[i]])
           \o PerLayerLists(layers, i + 1)

\* the globally enumerated extensions followed by those of each advertised
\* layer
EnumeratedExtensions ==
    Enumerated("global", loader.global)
      \o PerLayerLists(Enumerated("layers", loader.layers), 1)

\* C18 as claimed: after a Library is constructed, hasInstanceExtension(id)
\* is true exactly when the name of id is in the globally enumerated list or
\* in the list of an advertised layer, and the stored list is the global
\* list followed by the list enumerated for each advertised layer, with as
\* many entries as these lists have together.
C18_AsClaimed ==
    loader.state = "constructed" =>
        /\ library.m_instance_extension_properties = EnumeratedExtensions
        /\ Len(library.m_instance_extension_properties)
             = Len(EnumeratedExtensions)
        /\ translation.op = "hasInstanceExtension" =>
             (translation.valid <=>
                ExtensionName(translation.ext)
                  \in Range(library.m_instance_extension_properties))

\* every enumeration delivered at its second call as many entries as its
\* first call announced
CountsStable ==
    \A stage \in Stages :
        Enumerated(stage, IF stage = "layers" THEN loader.layers
                          ELSE IF stage = "global" THEN loader.global
                          ELSE LayerExtensions[stage])
          = (IF stage = "layers" THEN loader.layers
             ELSE IF stage = "global" THEN loader.global
             ELSE LayerExtensions[stage])

\* C18 amended: after a Library is constructed, hasInstanceExtension(id) is
\* true exactly when the name of id is in the globally enumerated list or
\* in the list enumerated for an advertised layer; the stored list begins
\* with the global list followed by the list of each advertised layer in
\* the order of the layers, and every entry after these has an empty name;
\* there is no such entry, and so the count is the sum of the counts, when
\* every second enumeration call delivered as many entries as the first
\* announced.
C18_AdvertisedUnion ==
    loader.state = "constructed" =>
        LET stored == library.m_instance_extension_properties
            n == Len(EnumeratedExtensions)
        IN  /\ library.m_layer_properties
                 = Enumerated("layers", loader.layers)
            /\ Len(stored) >= n
            /\ SubSeq(stored, 1, n) = EnumeratedExtensions
            /\ \A k \in (n + 1) .. Len(stored) : stored[k] = ""
            /\ CountsStable => Len(stored) = n
            /\ translation.op = "hasInstanceExtension" =>
                 (translation.valid <=>
                    ExtensionName(translation.ext)
                      \in Range(EnumeratedExtensions))

\* two layers are advertised, EXT_memory_budget is in the list of the second
\* layer only, hasInstanceExtension found it, and the stored list has the
\* 2 + 2 + 1 entries of the three lists
C18_Witness ==
    /\ loader.state = "constructed"
    /\ Len(library.m_layer_properties) = 2
    /\ Len(loader.global) = 2
    /\ translation.op = "hasInstanceExtension"
    /\ translation.ext = EXT_memory_budget /\ translation.valid
    /\ "VK_EXT_memory_budget" \notin Range(loader.global)
    /\ Len(library.m_instance_extension_properties) = 5
    /\ library.m_instance_extension_properties[5] = "VK_EXT_memory_budget"

(***************************************************************************)
(* The runtime C interface                                                 *)
(***************************************************************************)
InterfaceCalls == { "vkw_loadVulkan", "vkw_createSpvContext", "vkw_spvLink" }

\* C21: vkw_loadVulkan(handle) returns VKW_OK with a handle that is not
\* null written on success; when the library does not load it returns
\* VKW_VULKAN_LIB_MISSING and the caller's handle is null afterwards; with
\* a null handle pointer the call changes nothing and returns.
C21_LoadVulkanContract ==
    [][(runtime'.op = "vkw_loadVulkan" /\ runtime'.calls = runtime.calls + 1)
         =>
        /\ ~terminated'
        /\ (runtime'.handle # "none" /\ runtime'.code = "VKW_OK") =>
             runtime'.handle = "library"
        /\ (runtime'.handle # "none"
              /\ runtime'.code = "VKW_VULKAN_LIB_MISSING") =>
             runtime'.handle = "null"
        /\ runtime'.handle = "none" =>
             runtime'.lastError = runtime.lastError
      ]_vars

\* C22: whenever vkw_loadVulkan, vkw_createSpvContext or vkw_spvLink returns
\* a code other than VKW_OK, the last-error string was written for that
\* call, and vkw_lastError() called right after it returns that message.
C22_LastErrorFilled ==
    (runtime.state = "ready" /\ runtime.op \in InterfaceCalls
       /\ ~terminated /\ runtime.code # "VKW_OK") =>
        /\ runtime.lastError = [about |-> runtime.op, call |-> runtime.calls]
        /\ runtime.returned \in { NoMessage, runtime.lastError }

(***************************************************************************)
(* The version gate and the table behind it                                *)
(***************************************************************************)
\* the table loaded at construction of the level
LoadedTable(level) ==
    IF level = "instance" THEN instance.m_coreInstanceSymbols
    ELSE device.m_coreDeviceSymbols

\* table is the table of (major, minor) or one derived from it
DerivedFrom(table, major, minor) ==
    /\ table \in CoreTables
    /\ ~TripleLess(<< table[1], table[2], 0 >>, << major, minor, 0 >>)

\* C23: whenever core<M, m>() passes its gate (ApiVersion{M, m, 0} is not
\* above the negotiated version), the one table loaded when the Instance or
\* the Device was constructed is the table of (M, m) or a later one of the
\* chain, so the cast to the table of (M, m) is a cast to a base.
C23_GateImpliesTable ==
    [][(result'.op = "core" /\ result'.err = NoError) =>
        /\ VLessEq(result'.ver, NegotiatedVersion(result'.level))
        /\ instance' = instance /\ device' = device
        /\ DerivedFrom(LoadedTable(result'.level), result'.ver.major,
                       result'.ver.minor)]_vars

\* core<1, 1>() passed on an Instance negotiated at 1.1.x and core<1, 2>()
\* is refused on it: the table behind the cast is the table of (1, 1)
C23_Witness ==
    /\ result.op = "core" /\ result.level = "instance"
    /\ result.err = NoError
    /\ << result.ver.major, result.ver.minor >> = << 1, 1 >>
    /\ instance.state = "alive"
    /\ instance.m_coreInstanceSymbols = << 1, 1 >>
    /\ InstanceCore(instance, 1, 2) # NoError

(***************************************************************************)
(* Construction that fails after the native create call                    *)
(***************************************************************************)
\* the native handles that were created and not destroyed
LiveInstanceHandles ==
    Cardinality({ i \in DOMAIN vkCreateInstance :
                    vkCreateInstance[i].res = "VK_SUCCESS" })
      - vkDestroyInstance
LiveDeviceHandles ==
    Cardinality({ i \in DOMAIN vkCreateDevice :
                    vkCreateDevice[i].res = "VK_SUCCESS" })
      - vkDestroyDevice

EnabledWithinSupported(pd) ==
    /\ NoDuplicates(pd.m_enabledExtensions)
    /\ Range(pd.m_enabledExtensions) \subseteq Range(pd.m_supportedExtensions)

\* C25: after any sequence of enableExtension calls the enabled list of a
\* PhysicalDevice (and of the copy a Device keeps) has no duplicates and
\* holds supported extensions only; enableExtension(e) for an unsupported e
\* fails with ExtensionUnsupported carrying e and its name and leaves the
\* list as it was; for an e that is already enabled it changes nothing;
\* otherwise it appends e.
C25_EnabledExtensions ==
    [][/\ physicalDevice'.state = "present" =>
             EnabledWithinSupported(physicalDevice')
       /\ device'.state = "alive" =>
             EnabledWithinSupported(device'.m_ph_device)
       /\ (result'.op = "enableExtension" /\ result'.level = "device") =>
            LET e == result'.id
                before == physicalDevice.m_enabledExtensions
                after == physicalDevice'.m_enabledExtensions
            IN  /\ physicalDevice'.m_supportedExtensions
                     = physicalDevice.m_supportedExtensions
                /\ IF e \notin Range(physicalDevice.m_supportedExtensions)
                   THEN /\ result'.err
                            = ExtensionUnsupported(e, ExtensionNames[e + 1])
                        /\ after = before
                   ELSE /\ result'.err = NoError
                        /\ after = IF e \in Range(before) THEN before
                                   ELSE Append(before, e)]_vars

\* two extensions are enabled, the call before this state asked for one of
\* them again and succeeded without a change
C25_Witness ==
    /\ physicalDevice.state = "present"
    /\ Len(physicalDevice.m_enabledExtensions) = 2
    /\ result.op = "enableExtension" /\ result.level = "device"
    /\ result.err = NoError
    /\ result.id = physicalDevice.m_enabledExtensions[1]

\* C26: on a PhysicalDevice whose supported version is at least 1.0.0,
\* requestedApiVersion() <= supportedApiVersion() at all times; a
\* requestApiVersion(v) that is rejected (v above the supported version,
\* ApiVersionUnsupported) leaves the requested version as it was, one that
\* is accepted sets it to exactly v; a Device built from the PhysicalDevice
\* reports that requested version as its apiVersion().
C26_RequestedVersion ==
    [][/\ (physicalDevice'.state = "present"
            /\ VLessEq(ApiVersion(1, 0, 0),
                       ApiVersionDecode(physicalDevice'.apiVersion))) =>
             VLessEq(physicalDevice'.m_requestedApiVersion,
                     ApiVersionDecode(physicalDevice'.apiVersion))
       /\ (result'.op = "requestApiVersion" /\ result'.level = "device") =>
            /\ physicalDevice'.apiVersion = physicalDevice.apiVersion
            /\ IF VLess(ApiVersionDecode(physicalDevice.apiVersion),
                        result'.ver)
               THEN /\ result'.err.kind = "ApiVersionUnsupported"
                    /\ physicalDevice'.m_requestedApiVersion
                         = physicalDevice.m_requestedApiVersion
               ELSE /\ result'.err = NoError
                    /\ physicalDevice'.m_requestedApiVersion = result'.ver
       /\ (result'.op = "Device" /\ device'.state = "alive") =>
            /\ device'.m_apiVer = physicalDevice.m_requestedApiVersion
            /\ device'.m_ph_device.m_requestedApiVersion
                 = physicalDevice.m_requestedApiVersion]_vars

\* 1.1.0 was accepted, the request for a version above the supported one
\* that followed was rejected and the process goes on with 1.1.0
C26_Witness ==
    /\ physicalDevice.state = "present" /\ ~terminated
    /\ result.op = "requestApiVersion" /\ result.level = "device"
    /\ result.err.kind = "ApiVersionUnsupported"
    /\ VLess(ApiVersionDecode(physicalDevice.apiVersion), result.ver)
    /\ physicalDevice.m_requestedApiVersion = ApiVersion(1, 1, 0)

(***************************************************************************)
(* QueueFamily                                                             *)
(***************************************************************************)
\* C27: on a QueueFamily queueRequestedCount() <= queueCount() at all
\* times; requestQueue on a family that already holds queueCount() requests
\* fails with NotEnoughQueues and leaves the requested queues and their
\* priorities as they were; every successful requestQueue(p) appends
\* exactly the one priority p.
C27_QueueRequests ==
    [][/\ Len(queueFamily'.m_queuesRequested)
            <= queueFamily'.m_family.queueCount
       /\ queueFamily'.m_family = queueFamily.m_family
       /\ queueFamily'.op = "requestQueue" =>
            LET before == queueFamily.m_queuesRequested
                after == queueFamily'.m_queuesRequested
            IN  IF Len(before) = queueFamily.m_family.queueCount
                THEN /\ queueFamily'.err.kind = "NotEnoughQueues"
                     /\ queueFamily'.err.index = queueFamily.m_index
                     /\ queueFamily'.err.max
                          = queueFamily.m_family.queueCount
                     /\ after = before
                ELSE /\ queueFamily'.err = NoQueueError
                     /\ Len(after) = Len(before) + 1
                     /\ SubSeq(after, 1, Len(before)) = before
                     /\ after[Len(after)] \in Priorities
       /\ queueFamily'.op # "requestQueue" =>
            queueFamily'.m_queuesRequested = queueFamily.m_queuesRequested
      ]_vars

\* a family of two queues holds two requests with different priorities,
\* the third request was refused in a build with exceptions and the
\* process goes on
C27_Witness ==
    /\ queueFamily.state = "present" /\ ~terminated
    /\ queueFamily.m_family.queueCount = 2
    /\ queueFamily.m_queuesRequested = << 5, 10 >>
    /\ queueFamily.op = "requestQueue"
    /\ queueFamily.err.kind = "NotEnoughQueues"

(***************************************************************************)
(* DefaultDeviceAllocation                                                 *)
(***************************************************************************)
\* C28: over every sequence of map(), unmap() and destruction of a
\* DefaultDeviceAllocation, a failing vmaMapMemory included: vmaUnmapMemory
\* is called only while a successful vmaMapMemory made by map() is
\* outstanding; repeated map() calls hold at most one native map; memory
\* that is persistently mapped and that map() did not map is never
\* unmapped; once the allocation is destroyed the successful native maps
\* and the native unmaps are equal in number.
C28_MapUnmapBalanced ==
    /\ NativeUnmaps(allocation) <= NativeMaps(allocation)
    /\ NativeMaps(allocation) - NativeUnmaps(allocation) <= 1
    /\ allocation.state = "destroyed" =>
         NativeMaps(allocation) = NativeUnmaps(allocation)

(***************************************************************************)
(* DescriptorPool                                                          *)
(***************************************************************************)
\* the DescriptorSets allocated from the pool that are not destroyed
LiveSets(pool) == { i \in DOMAIN pool.sets : pool.sets[i] = "live" }

\* C29: for a DescriptorPool of any creation flags, after any sequence of
\* DescriptorSet constructions (successful or failing) and destructions,
\* currentSetsCount() is the number of DescriptorSets allocated from the
\* pool that have not been destroyed.
C29_CountIsLive ==
    (descriptorPool.state = "alive" /\ ~terminated) =>
        descriptorPool.m_setCount = Cardinality(LiveSets(descriptorPool))

(***************************************************************************)
(* Recorders                                                               *)
(***************************************************************************)
Begun(calls) ==
    { i \in DOMAIN calls : calls[i] = NativeCall("vkBeginCommandBuffer",
                                                 "VK_SUCCESS") }
Ended(calls) ==
    { i \in DOMAIN calls : calls[i].call = "vkEndCommandBuffer" }

\* C30: for a BufferRecorder and for the RenderPassRecorder of a secondary
\* command buffer, vkEndCommandBuffer is issued on the buffer only right
\* after a successful vkBeginCommandBuffer on it, and once no recorder is
\* recording there is exactly one vkEndCommandBuffer for every successful
\* vkBeginCommandBuffer; this includes a vkBeginCommandBuffer that fails
\* while the recorder is constructed.
C30_EndFollowsBegin ==
    /\ \A i \in Ended(recorder.calls) : (i - 1) \in Begun(recorder.calls)
    /\ recorder.state # "recording" =>
         Cardinality(Ended(recorder.calls))
           = Cardinality(Begun(recorder.calls))

====
